---- MODULE Spec2Model ----
(***************************************************************************)
(* A model of aria_make's build engine: the StateManager                   *)
(* (src/src/state/state_manager.cpp) and the BuildOrchestrator             *)
(* (src/src/core/build_orchestrator.cpp): dependency analysis, dirty       *)
(* marking, the sequential and the parallel executor, and the manifest.    *)
(***************************************************************************)
EXTENDS Integers, Sequences, FiniteSets, TLC

\* ------------------------------------------------------------------ bounds
\* Number of (declared or scanned) dependency entries a build file holds.
MaxEdges == 3
\* Largest value of the wall clock (seconds).
MaxTime == 3
\* Number of state-changing StateManager and filesystem operations of one
\* SpecState or SpecPipe behaviour.
MaxOps == 3

\* ------------------------------------------------------------- the universe
\* Target names a build file may define, in lexicographic order.
Names == {"a", "b", "c"}
\* A name that is no target: an external module, or a misspelt dependency.
External == "ext"
AllNames == Names \cup {External}
\* File contents, compiler identities and flag lists the environment offers.
Contents == {"v1", "v2"}
Compilers == {"ariac", "ariac2"}
FlagLists == {<<>>, <<"-O2">>}

SrcPath(t) == <<"src", t>>
OutPath(t) == <<"out", t>>
Paths == {SrcPath(t) : t \in Names} \cup {OutPath(t) : t \in Names}

VARIABLES
    \* the build description and the configuration (inputs of a process)
    build_file,       \* target names in file order
    decl,             \* name -> declared deps (BuildTarget::dependencies)
    imports,          \* name -> module names the ImportScanner returns
    config,           \* BuildConfig
    \* the ABC configuration document and its interpolation
    doc,              \* ABCDocument: the global variables and the targets
    environ,          \* the process environment (std::getenv)
    interp,           \* an Interpolator: scope, colours, cache, errors
    abc_out,          \* what the last interpolation call returned
    \* the threads that call one StateManager, each with its position
    threads,
    \* BuildOrchestrator
    stage, targets_, dependencies_, dependents_, build_order_, dirty_targets_,
    result_, cancelled_,
    \* executor
    mpc, seq_idx, seq_cur, dep_count, reverse_deps, ready_queue, pool_tasks,
    workers, built_count, has_failure,
    \* StateManager
    records_, sm_dirty_, toolchain_, saved_toolchain_, hash_cache_,
    timestamp_cache_,
    \* environment: filesystem, manifest file, clocks
    files, manifest, now, file_epoch,
    \* history (not program state): events of the current run and the runs
    hist, run, ops, last_check

abcVars  == <<doc, environ, interp, abc_out>>
inVars   == <<build_file, decl, imports, config, abcVars, threads>>
orchVars == <<stage, targets_, dependencies_, dependents_, build_order_,
              dirty_targets_, result_, cancelled_>>
execVars == <<mpc, seq_idx, seq_cur, dep_count, reverse_deps, ready_queue,
              pool_tasks, workers, built_count, has_failure>>
smVars   == <<records_, sm_dirty_, toolchain_, saved_toolchain_, hash_cache_,
              timestamp_cache_>>
envVars  == <<files, manifest, now, file_epoch>>
histVars == <<hist, run, ops, last_check>>
vars == <<inVars, orchVars, execVars, smVars, envVars, histVars>>

\* ------------------------------------------------------------------ helpers
SeqToSet(s) == {s[i] : i \in DOMAIN s}
Contains(s, x) == \E i \in DOMAIN s : s[i] = x
EmptyMap == [x \in {} |-> <<>>]
MapGet(f, k) == IF k \in DOMAIN f THEN f[k] ELSE <<>>
MapPut(f, k, v) == [x \in DOMAIN f \cup {k} |-> IF x = k THEN v ELSE f[x]]
MapDel(f, k) == [x \in DOMAIN f \ {k} |-> f[x]]
Perms(S) == {p \in [1..Cardinality(S) -> S] :
               \A i, j \in 1..Cardinality(S) : i # j => p[i] # p[j]}
SeqsUpTo(S, n) == UNION {[1..k -> S] : k \in 0..n}

\* ============================================================ StateManager
\* ToolchainInfo (artifact_record.hpp:64-80); the default one is empty.
ToolchainInfo(version) == [compiler_version |-> version, compiler_hash |-> ""]
NoToolchain == ToolchainInfo("")

\* fs::exists
fs_exists(path) == files[path].exists

\* get_file_timestamp: seconds of the file clock, 0 when the file cannot be
\* read. The file clock counts from its own epoch (file_epoch), which need
\* not be the system clock's.
get_file_timestamp(path) ==
    IF files[path].exists THEN files[path].mtime + file_epoch ELSE 0

\* sha256_file: the digest string "fnv1a:<hex>" of the content, "" when the
\* file cannot be opened. A digest is a one-element sequence, "" is <<>>,
\* so that string concatenation is sequence concatenation.
sha256_file(path) ==
    IF files[path].exists THEN <<files[path].content>> ELSE <<>>

\* hash_flags / fnv1a_hash(vector): FNV-1a over the ordered flag list with a
\* separator per element; modelled without collisions. 0 is <<>>.
hash_flags(flags) == <<"fnv">> \o flags
ZeroHash == <<>>

\* A cache is the pair (hash_cache_, timestamp_cache_).
Cache(h, t) == [h |-> h, t |-> t]

\* get_cached_hash: the cached digest when the cached mtime equals the
\* file's current one, else the digest recomputed and the entry refreshed.
get_cached_hash_any_mtime(c, path) ==
    IF path \in DOMAIN c.h /\ path \in DOMAIN c.t
    THEN [val |-> c.h[path], c |-> c]
    ELSE [val |-> sha256_file(path),
          c   |-> Cache(MapPut(c.h, path, sha256_file(path)),
                        MapPut(c.t, path, get_file_timestamp(path)))]
get_cached_hash(c, path) ==
    IF /\ path \in DOMAIN c.h
       /\ path \in DOMAIN c.t
       /\ get_file_timestamp(path) = c.t[path]
    THEN [val |-> c.h[path], c |-> c]
    ELSE [val |-> sha256_file(path),
          c   |-> Cache(MapPut(c.h, path, sha256_file(path)),
                        MapPut(c.t, path, get_file_timestamp(path)))]

\* hash_file
hash_file(c, path) == get_cached_hash(c, path)

\* invalidate_hash_cache / clear_hash_cache
invalidate_hash_cache(c, path) == Cache(MapDel(c.h, path), MapDel(c.t, path))
clear_hash_cache(c) == Cache(EmptyMap, EmptyMap)

\* The loop "combined += get_cached_hash(source)" of check_dirty and
\* update_record.
RECURSIVE combine_sources(_, _, _)
combine_sources(c, sources, acc) ==
    IF sources = <<>> THEN [val |-> acc, c |-> c]
    ELSE LET r == get_cached_hash(c, Head(sources))
         IN combine_sources(r.c, Tail(sources), acc \o r.val)

\* "fnv1a:" + to_string(fnv1a_hash(combined)); fnv1a_hash(string) is
\* modelled without collisions, so the "" branch (hash = 0) is not taken.
source_hash_of(combined) == <<"fnv1a">> \o combined

\* file_changed
file_changed(c, path, expected_hash) ==
    IF ~fs_exists(path) THEN [val |-> TRUE, c |-> c]
    ELSE LET r == get_cached_hash(c, path)
         IN [val |-> r.val # expected_hash, c |-> r.c]

\* Rule 7's loop over record.direct_dependencies, to the first changed one.
RECURSIVE deps_changed(_, _)
deps_changed(c, deps) ==
    IF deps = <<>> THEN [val |-> FALSE, c |-> c]
    ELSE LET r == file_changed(c, Head(deps).path, Head(deps).hash)
         IN IF r.val THEN r ELSE deps_changed(r.c, Tail(deps))

\* Rule 8's loop over record.implicit_dependencies (it touches no cache).
implicit_changed(record) ==
    \E i \in DOMAIN record.implicit_dependencies :
        \/ ~fs_exists(record.implicit_dependencies[i])
        \/ get_file_timestamp(record.implicit_dependencies[i])
               > record.build_timestamp

\* The StateManager fields check_dirty reads.
SM(records, dirty, toolchain, saved) ==
    [records |-> records, dirty |-> dirty, toolchain |-> toolchain,
     saved |-> saved]
CurrentSM == SM(records_, sm_dirty_, toolchain_, saved_toolchain_)

\* A variant that looks at the sources before the flags.
check_dirty_swapped(sm, c, target_name, output_path, source_files, flags) ==
    IF ~fs_exists(output_path)
    THEN [reason |-> "MISSING_ARTIFACT", c |-> c]
    ELSE IF target_name \notin DOMAIN sm.records
    THEN [reason |-> "MISSING_RECORD", c |-> c]
    ELSE IF target_name \in sm.dirty
    THEN [reason |-> "DEPENDENCY_DIRTY", c |-> c]
    ELSE IF sm.toolchain # sm.saved
    THEN [reason |-> "TOOLCHAIN_CHANGED", c |-> c]
    ELSE LET s == combine_sources(c, source_files, <<>>)
         IN IF source_hash_of(s.val) # sm.records[target_name].source_hash
            THEN [reason |-> "SOURCE_CHANGED", c |-> s.c]
            ELSE IF hash_flags(flags) # sm.records[target_name].command_hash
            THEN [reason |-> "FLAGS_CHANGED", c |-> s.c]
            ELSE LET d == deps_changed(
                              s.c, sm.records[target_name].direct_dependencies)
                 IN IF d.val
                    THEN [reason |-> "DEPENDENCY_CHANGED", c |-> d.c]
                    ELSE IF implicit_changed(sm.records[target_name])
                    THEN [reason |-> "IMPLICIT_DEP_CHANGED", c |-> d.c]
                    ELSE [reason |-> "CLEAN", c |-> d.c]

\* check_dirty: the ordered rules, first match wins. The result carries the
\* cache as the calls of get_cached_hash made up to the return leave it.
check_dirty(sm, c, target_name, output_path, source_files, flags) ==
    IF ~fs_exists(output_path)
    THEN [reason |-> "MISSING_ARTIFACT", c |-> c]
    ELSE IF target_name \notin DOMAIN sm.records
    THEN [reason |-> "MISSING_RECORD", c |-> c]
    ELSE IF target_name \in sm.dirty
    THEN [reason |-> "DEPENDENCY_DIRTY", c |-> c]
    ELSE IF sm.toolchain # sm.saved
    THEN [reason |-> "TOOLCHAIN_CHANGED", c |-> c]
    ELSE IF hash_flags(flags) # sm.records[target_name].command_hash
    THEN [reason |-> "FLAGS_CHANGED", c |-> c]
    ELSE LET s == combine_sources(c, source_files, <<>>)
         IN IF source_hash_of(s.val) # sm.records[target_name].source_hash
            THEN [reason |-> "SOURCE_CHANGED", c |-> s.c]
            ELSE LET d == deps_changed(
                              s.c, sm.records[target_name].direct_dependencies)
                 IN IF d.val
                    THEN [reason |-> "DEPENDENCY_CHANGED", c |-> d.c]
                    ELSE IF implicit_changed(sm.records[target_name])
                    THEN [reason |-> "IMPLICIT_DEP_CHANGED", c |-> d.c]
                    ELSE [reason |-> "CLEAN", c |-> d.c]

\* update_record: the record it builds (with the cache as it leaves it).
new_record(c, output_path, source_files, resolved_deps, implicit_deps, flags, build_duration_ms) ==
    LET s == combine_sources(c, source_files, <<>>)
    IN [rec |-> [output_path           |-> output_path,
                 source_hash           |-> source_hash_of(s.val),
                 command_hash          |-> hash_flags(flags),
                 direct_dependencies   |-> resolved_deps,
                 implicit_dependencies |-> implicit_deps,
                 source_timestamp      |->
                     IF source_files # <<>>
                     THEN get_file_timestamp(source_files[1]) ELSE 0,
                 build_timestamp       |-> now,
                 build_duration_ms     |-> build_duration_ms],
        c |-> s.c]

\* update_record as a state change: inserts or replaces the record and
\* erases the dirty mark of the name.
update_record(target_name, output_path, source_files, resolved_deps, implicit_deps, flags, build_duration_ms) ==
    LET r == new_record(Cache(hash_cache_, timestamp_cache_), output_path,
                        source_files, resolved_deps, implicit_deps, flags,
                        build_duration_ms)
    IN /\ records_' = MapPut(records_, target_name, r.rec)
       /\ sm_dirty_' = sm_dirty_ \ {target_name}
       /\ hash_cache_' = r.c.h
       /\ timestamp_cache_' = r.c.t
       /\ UNCHANGED <<toolchain_, saved_toolchain_>>

\* set_toolchain: also initialises saved_toolchain_ while that is empty.
set_toolchain_current_only(toolchain) ==
    /\ toolchain_' = toolchain
    /\ UNCHANGED saved_toolchain_
set_toolchain(toolchain) ==
    /\ saved_toolchain_' =
           IF saved_toolchain_.compiler_version = "" THEN toolchain
           ELSE saved_toolchain_
    /\ toolchain_' = toolchain

\* get_record (the optional as a sequence of at most one record) /
\* has_state / target_count
get_record(target_name) ==
    IF target_name \in DOMAIN records_ THEN <<records_[target_name]>>
    ELSE <<>>
has_state == DOMAIN records_ # {}
target_count == Cardinality(DOMAIN records_)

\* get_toolchain / toolchain_changed
get_toolchain == toolchain_
toolchain_changed == toolchain_ # saved_toolchain_

\* invalidate / mark_dirty / clear
invalidate_erase_only(target_name) ==
    /\ records_' = MapDel(records_, target_name)
    /\ UNCHANGED sm_dirty_
invalidate(target_name) ==
    /\ records_' = MapDel(records_, target_name)
    /\ sm_dirty_' = sm_dirty_ \cup {target_name}

mark_dirty(target_name) ==
    /\ sm_dirty_' = sm_dirty_ \cup {target_name}
    /\ UNCHANGED records_

clear_caches_only ==
    /\ hash_cache_' = EmptyMap
    /\ timestamp_cache_' = EmptyMap
    /\ sm_dirty_' = {}
    /\ UNCHANGED records_
clear ==
    /\ records_' = EmptyMap
    /\ hash_cache_' = EmptyMap
    /\ timestamp_cache_' = EmptyMap
    /\ sm_dirty_' = {}

\* ------------------------------------------------------------ the manifest
\* Text widths of serialize()'s output, in characters.
\* `"artifact_path": "`
ArtifactPrefixLen == 18
\* `"source_hash": "` and `"command_hash": `
HashPrefixLen == 16
\* `"source_timestamp": `
SourceTsPrefixLen == 20
\* the end of a string line and the next line's indentation: `",\n      `
StringLineEnd == 9
\* the end of a number line and the next line's indentation: `,\n      `
NumberLineEnd == 8
\* "fnv1a:" and the decimal digits of a 64-bit hash
SourceHashTextLen == 26
\* the decimal digits of a 64-bit hash
CommandHashTextLen == 20
\* the decimal digits of a timestamp in seconds
TimestampTextLen == 10
\* deserialize()'s search windows after the "artifact_path" key
SourceHashWindow == 500
CommandHashWindow == 500
SourceTsWindow == 600
BuildTsWindow == 700

\* The length of an output path: output_dir / name.
PathLen(output_path) == config.out_len

\* Offsets of a record's keys from its "artifact_path" key, as serialize()
\* lays them out.
SourceHashOffset(rec) ==
    ArtifactPrefixLen + PathLen(rec.output_path) + StringLineEnd
CommandHashOffset(rec) ==
    SourceHashOffset(rec) + HashPrefixLen + SourceHashTextLen + StringLineEnd
SourceTsOffset(rec) ==
    CommandHashOffset(rec) + HashPrefixLen + CommandHashTextLen + NumberLineEnd
BuildTsOffset(rec) ==
    SourceTsOffset(rec) + SourceTsPrefixLen + TimestampTextLen + NumberLineEnd

\* serialize: the version, the CURRENT toolchain and every record.
serialize ==
    [exists |-> TRUE, version |-> "1.0", toolchain |-> toolchain_,
     targets |-> records_]
NoManifest ==
    [exists |-> FALSE, version |-> "1.0", toolchain |-> NoToolchain,
     targets |-> EmptyMap]

\* deserialize's parse of one record: a field is read only when its key
\* lies within the window; dependencies, implicit inputs and the duration
\* are not read.
parse_record(rec) ==
    [output_path           |-> rec.output_path,
     source_hash           |->
         IF SourceHashOffset(rec) < SourceHashWindow
         THEN rec.source_hash ELSE <<>>,
     command_hash          |->
         IF CommandHashOffset(rec) < CommandHashWindow
         THEN rec.command_hash ELSE ZeroHash,
     direct_dependencies   |-> <<>>,
     implicit_dependencies |-> <<>>,
     source_timestamp      |->
         IF SourceTsOffset(rec) < SourceTsWindow
         THEN rec.source_timestamp ELSE 0,
     build_timestamp       |->
         IF BuildTsOffset(rec) < BuildTsWindow
         THEN rec.build_timestamp ELSE 0,
     build_duration_ms     |-> 0]

\* ArtifactRecord::is_valid (target names are never empty)
is_valid(rec) == rec.source_hash # <<>>

\* deserialize: the records that parse to a valid record, and the
\* manifest's toolchain as saved_toolchain_; a text without the version
\* key (version "") is rejected after the records are cleared.
deserialize(text) ==
    LET parsed == [n \in DOMAIN text.targets |-> parse_record(text.targets[n])]
        keep == IF text.version = "" THEN {}
                ELSE {n \in DOMAIN parsed : is_valid(parsed[n])}
    IN /\ records_' = [n \in keep |-> parsed[n]]
       /\ saved_toolchain_' = IF text.version = "" THEN saved_toolchain_
                             ELSE text.toolchain

\* load: an absent file clears the records and nothing else; a file that
\* cannot be opened (can_open = FALSE) leaves the manager as it is.
load_from(can_open) ==
    /\ IF ~manifest.exists
       THEN records_' = EmptyMap /\ UNCHANGED saved_toolchain_
       ELSE IF ~can_open
       THEN UNCHANGED <<records_, saved_toolchain_>>
       ELSE deserialize(manifest)
    /\ UNCHANGED <<sm_dirty_, toolchain_, hash_cache_, timestamp_cache_>>
\* load's return value
load_result(can_open) ==
    \/ ~manifest.exists
    \/ can_open /\ manifest.version # ""
\* load of a state file that can be opened when it exists
load == load_from(TRUE)

\* save: writes serialize() to the state file unless the file cannot be
\* opened (ok = FALSE).
save(ok) ==
    /\ manifest' = IF ok THEN serialize ELSE manifest

\* ============================================================ Interpolator
\* A string is the sequence of its pieces: "&{" and "}" are one piece
\* each, "ENV." is one piece, and a variable name is the sequence of the
\* pieces between "&{" and the next "}".
Ref(name) == <<"&{">> \o name \o <<"}">>

\* std::string::find from pos: the first position, 0 for npos
find(s, piece, pos) ==
    IF \E i \in pos..Len(s) : s[i] = piece
    THEN CHOOSE i \in pos..Len(s) :
             s[i] = piece /\ \A j \in pos..(i - 1) : s[j] # piece
    ELSE 0

\* Parser::parseString's segments of a composite string; an unterminated
\* "&{" ends the segments (and is a parse error).
RECURSIVE segments_from(_, _)
segments_from(content, pos) ==
    IF pos > Len(content) THEN <<>>
    ELSE LET interpPos == find(content, "&{", pos)
             closePos == find(content, "}", interpPos)
             lit == IF interpPos > pos
                    THEN <<[isVariable |-> FALSE,
                            value |-> SubSeq(content, pos, interpPos - 1)]>>
                    ELSE <<>>
         IN IF interpPos = 0
            THEN <<[isVariable |-> FALSE,
                    value |-> SubSeq(content, pos, Len(content))]>>
            ELSE IF closePos = 0 THEN lit
            ELSE lit \o <<[isVariable |-> TRUE,
                           value |-> SubSeq(content, interpPos + 1,
                                            closePos - 1)]>>
                     \o segments_from(content, closePos + 1)

LiteralStringNode(value) ==
    [kind |-> "LiteralString", value |-> value, segments |-> <<>>]
\* Parser::parseString: a literal without "&{", a composite with it
parseString(content) ==
    IF find(content, "&{", 1) = 0 THEN LiteralStringNode(content)
    ELSE [kind |-> "CompositeString", value |-> <<>>,
          segments |-> segments_from(content, 1)]

\* Scope::Scope(ObjectNode*): the members that are literal strings
Scope(members) ==
    LET lits == {i \in DOMAIN members :
                     members[i].value.kind = "LiteralString"}
        last(k) == CHOOSE i \in lits :
                       /\ members[i].key = k
                       /\ \A j \in lits : members[j].key = k => j <= i
    IN [k \in {members[i].key : i \in lits} |-> members[last(k)].value.value]

\* Interpolator::Interpolator: colorMap maps a name to "GRAY" or "BLACK"
Interpolator(globalVars) ==
    [globalScope |-> globalVars, colorMap |-> EmptyMap, cache |-> EmptyMap,
     errors |-> <<>>, resolutionPath |-> <<>>]
setGlobal(I, name, value) ==
    [I EXCEPT !.globalScope = MapPut(@, name, value)]
hasErrors(I) == I.errors # <<>>

\* InterpolationResult::ok / err, with the Interpolator as the call left it
NoError == [message |-> "", detail |-> <<>>]
InterpolationOk(value, I) ==
    [success |-> TRUE, value |-> value, error |-> NoError, I |-> I]
InterpolationErr(message, detail, I) ==
    [success |-> FALSE, value |-> <<>>,
     error |-> [message |-> message, detail |-> detail], I |-> I]

\* getEnvironmentVariable
getEnvironmentVariable(name) ==
    IF name \in DOMAIN environ THEN <<environ[name]>> ELSE <<>>

RECURSIVE resolve_from(_, _, _, _, _)
RECURSIVE resolveInternal(_, _, _)

\* resolveVariable: the name is on the resolution path during the call
resolveVariable(name, localScope, I) ==
    LET r == resolveInternal(name, localScope,
                 [I EXCEPT !.resolutionPath = Append(@, name)])
    IN [r EXCEPT !.I.resolutionPath = I.resolutionPath]

\* resolve's loop from position pos with `result` accumulated
resolve_from(input, pos, result, localScope, I) ==
    IF pos > Len(input) THEN InterpolationOk(result, I)
    ELSE LET interpStart == find(input, "&{", pos)
             interpEnd == find(input, "}", interpStart)
             varName == SubSeq(input, interpStart + 1, interpEnd - 1)
             varResult == resolveVariable(varName, localScope, I)
         IN IF interpStart = 0
            THEN InterpolationOk(result \o SubSeq(input, pos, Len(input)), I)
            ELSE IF interpEnd = 0
            THEN InterpolationErr("Unterminated variable reference", <<>>, I)
            ELSE IF ~varResult.success THEN varResult
            ELSE resolve_from(input, interpEnd + 1,
                     result \o SubSeq(input, pos, interpStart - 1)
                            \o varResult.value,
                     localScope, varResult.I)

resolve(input, localScope, I) == resolve_from(input, 1, <<>>, localScope, I)

\* resolveInternal: an error return leaves the name GRAY
resolveInternal(name, localScope, I) ==
    LET gray == [I EXCEPT !.colorMap = MapPut(@, name, "GRAY")]
        black(resolved, J) ==
            InterpolationOk(resolved,
                [J EXCEPT !.colorMap = MapPut(@, name, "BLACK"),
                          !.cache = MapPut(@, name, resolved)])
        nested(value) ==
            LET result == resolve(value, localScope, gray)
            IN IF ~result.success THEN result
               ELSE black(result.value, result.I)
        envName == Tail(name)
        envValue == getEnvironmentVariable(envName)
    IN IF name \in DOMAIN I.colorMap /\ I.colorMap[name] = "GRAY"
       THEN InterpolationErr("Circular dependency detected",
                             I.resolutionPath, I)
       ELSE IF name \in DOMAIN I.colorMap /\ I.colorMap[name] = "BLACK"
       THEN InterpolationOk(I.cache[name], I)
       ELSE IF name # <<>> /\ name[1] = "ENV."
       THEN IF envValue = <<>>
            THEN InterpolationErr("Environment variable not found",
                                  <<envName>>, gray)
            ELSE black(envValue[1], gray)
       ELSE IF name \in DOMAIN localScope THEN nested(localScope[name])
       ELSE IF name \in DOMAIN I.globalScope THEN nested(I.globalScope[name])
       ELSE InterpolationErr("Undefined variable", <<name>>, gray)

\* resolveNode: the segments of a composite string in order
RECURSIVE resolveNode_from(_, _, _, _, _)
resolveNode_from(segments, i, result, localScope, I) ==
    IF i > Len(segments) THEN InterpolationOk(result, I)
    ELSE IF ~segments[i].isVariable
    THEN resolveNode_from(segments, i + 1, result \o segments[i].value,
                          localScope, I)
    ELSE LET varResult == resolveVariable(segments[i].value, localScope, I)
         IN IF ~varResult.success THEN varResult
            ELSE resolveNode_from(segments, i + 1,
                                  result \o varResult.value, localScope,
                                  varResult.I)
resolveNode(node, localScope, I) ==
    resolveNode_from(node.segments, 1, <<>>, localScope, I)

\* resolveASTNode returns result.value, or "" when the resolution failed;
\* `result` is the InterpolationResult it drops.
resolveASTNode(node, I, localScope) ==
    LET result == IF node.kind = "LiteralString"
                  THEN resolve(node.value, localScope, I)
                  ELSE resolveNode(node, localScope, I)
    IN [text |-> IF result.success THEN result.value ELSE <<>>,
        I |-> result.I, result |-> result]

\* The nullptr local scope of the globals phase
NoScope == EmptyMap

\* resolveDocument, phase A: each global in file order; a nonempty result
\* replaces the node and enters the global scope. `dropped` collects the
\* errors of the failed resolutions. globals_step is the loop body after
\* the call r of resolveASTNode.
RECURSIVE resolve_globals(_, _, _, _)
globals_step(members, i, dropped, r) ==
    resolve_globals(
        IF r.text # <<>>
        THEN [members EXCEPT ![i].value = LiteralStringNode(r.text)]
        ELSE members,
        i + 1,
        IF r.text # <<>> THEN setGlobal(r.I, members[i].key, r.text) ELSE r.I,
        IF r.result.success THEN dropped ELSE Append(dropped, r.result.error))
resolve_globals(members, i, I, dropped) ==
    IF i > Len(members)
    THEN [members |-> members, I |-> I, dropped |-> dropped]
    ELSE globals_step(members, i, dropped,
                      resolveASTNode(members[i].value, I, NoScope))

\* phase B: the string members of one target under its local scope
RECURSIVE resolve_members(_, _, _, _, _)
members_step(members, i, localScope, dropped, r) ==
    resolve_members(
        IF r.text # <<>>
        THEN [members EXCEPT ![i].value = LiteralStringNode(r.text)]
        ELSE members,
        i + 1, localScope, r.I,
        IF r.result.success THEN dropped ELSE Append(dropped, r.result.error))
resolve_members(members, i, localScope, I, dropped) ==
    IF i > Len(members)
    THEN [members |-> members, I |-> I, dropped |-> dropped]
    ELSE members_step(members, i, localScope, dropped,
                      resolveASTNode(members[i].value, I, localScope))

RECURSIVE resolve_targets(_, _, _, _)
targets_step(targets, t, r) ==
    resolve_targets([targets EXCEPT ![t].members = r.members], t + 1, r.I,
                    r.dropped)
resolve_targets(targets, t, I, dropped) ==
    IF t > Len(targets)
    THEN [targets |-> targets, I |-> I, dropped |-> dropped]
    ELSE targets_step(targets, t,
                      resolve_members(targets[t].members, 1,
                                      Scope(targets[t].variables), I, dropped))

\* resolveDocument: its return value, the document as it leaves it, and
\* the errors dropped; a and b are the results of the two phases.
document_result(a, b) ==
    [kind |-> "document", ret |-> ~hasErrors(b.I),
     doc |-> [variables |-> a.members, targets |-> b.targets],
     hasErrors |-> hasErrors(b.I), dropped |-> b.dropped]
document_targets(d, a) ==
    document_result(a, resolve_targets(d.targets, 1, a.I, a.dropped))
resolveDocument(d) ==
    document_targets(d, resolve_globals(d.variables, 1,
                                        Interpolator(Scope(d.variables)),
                                        <<>>))

NoDocument == [variables |-> <<>>, targets |-> <<>>]
NoOutput == [kind |-> "none"]

\* ======================================================= BuildOrchestrator
\* A target's attributes, fixed by its name (extract_targets, expand_sources)
SourcesOf(t) == <<SrcPath(t)>>
AllFlags(t) == config.global_flags
TargetNameSet == SeqToSet(targets_)

\* ------------------------------------------------------- scan_dependencies
\* lines 737-745: a scanned module name is appended when it names a target
\* and is not yet among the deps.
RECURSIVE add_scanned(_, _, _)
add_scanned(deps, mods, tnames) ==
    IF mods = <<>> THEN deps
    ELSE add_scanned(
             IF Head(mods) \in tnames /\ ~Contains(deps, Head(mods))
             THEN Append(deps, Head(mods)) ELSE deps,
             Tail(mods), tnames)

\* lines 751-753: dependents_[dep].push_back(target.name) for each dep
RECURSIVE add_dependents(_, _, _)
add_dependents(rev, deps, t) ==
    IF deps = <<>> THEN rev
    ELSE add_dependents(
             MapPut(rev, Head(deps), Append(MapGet(rev, Head(deps)), t)),
             Tail(deps), t)

\* The loop over targets_: the declared deps are taken as they are, the
\* scanned ones are filtered to target names.
RECURSIVE scan_loop(_, _, _)
scan_loop(ts, fwd, rev) ==
    IF ts = <<>> THEN [fwd |-> fwd, rev |-> rev]
    ELSE LET t == Head(ts)
             deps == add_scanned(decl[t], imports[t], TargetNameSet)
         IN scan_loop(Tail(ts), MapPut(fwd, t, deps),
                      add_dependents(rev, deps, t))

\* -------------------------------------------------- build_dependency_graph
\* lines 788-793: decrement the in-degree of each dependent of the popped
\* node; one that reaches 0 is pushed.
RECURSIVE kahn_notify(_, _, _)
kahn_notify(ds, in_degree, ready) ==
    IF ds = <<>> THEN [in_degree |-> in_degree, ready |-> ready]
    ELSE LET d == Head(ds)
             n == (IF d \in DOMAIN in_degree THEN in_degree[d] ELSE 0) - 1
         IN kahn_notify(Tail(ds), MapPut(in_degree, d, n),
                        IF n = 0 THEN Append(ready, d) ELSE ready)

\* lines 781-795: the processing loop
RECURSIVE kahn_loop(_, _, _)
kahn_loop(ready, in_degree, order) ==
    IF ready = <<>> THEN order
    ELSE LET r == kahn_notify(MapGet(dependents_, Head(ready)), in_degree,
                              Tail(ready))
         IN kahn_loop(r.ready, r.in_degree, Append(order, Head(ready)))

\* lines 761-770: in_degree[t] = dependencies_[t].size()
in_degree_init ==
    [n \in TargetNameSet \cup DOMAIN dependencies_ |->
        Len(MapGet(dependencies_, n))]

\* ----------------------------------------------------------- detect_cycles
\* lines 814-827: from `current`, follow the first dep that is not in the
\* build order, until a visited node comes again or a node has no deps.
RECURSIVE trace_cycle(_, _, _, _)
trace_cycle(current, visited, path, processed) ==
    IF current \in visited THEN path
    ELSE LET deps == MapGet(dependencies_, current)
             open == {i \in DOMAIN deps : deps[i] \notin processed}
         IN IF deps = <<>> THEN path
            ELSE IF open = {} THEN path
            ELSE LET i == CHOOSE k \in open : \A j \in open : k <= j
                 IN trace_cycle(deps[i], visited \cup {current},
                                Append(path, deps[i]), processed)

\* lines 806-831: the walk starts at the first target of targets_ that is
\* not in the build order.
cycle_path_of ==
    LET processed == SeqToSet(build_order_)
        open == {i \in DOMAIN targets_ : targets_[i] \notin processed}
    IN IF open = {} THEN <<>>
       ELSE LET i == CHOOSE k \in open : \A j \in open : k <= j
            IN trace_cycle(targets_[i], {}, <<targets_[i]>>, processed)

\* ------------------------------------------------------ mark_dirty_targets
\* A variant that marks the direct dependents only.
propagate_direct(to_mark, dirty) == dirty \cup SeqToSet(to_mark)
\* lines 878-890: the queue of dependents to mark; a name already in the
\* dirty set is dropped, a new one is inserted and its dependents queued.
RECURSIVE propagate(_, _)
propagate(to_mark, dirty) ==
    IF to_mark = <<>> THEN dirty
    ELSE IF Head(to_mark) \notin dirty
    THEN propagate(Tail(to_mark) \o MapGet(dependents_, Head(to_mark)),
                   dirty \cup {Head(to_mark)})
    ELSE propagate(Tail(to_mark), dirty)

\* lines 851-892: the loop over targets_
RECURSIVE mark_loop(_, _, _, _)
mark_loop(ts, dirty, c, sm) ==
    IF ts = <<>> THEN [dirty |-> dirty, c |-> c]
    ELSE LET t == Head(ts)
         IN IF config.force_rebuild
            THEN mark_loop(Tail(ts), dirty \cup {t}, c, sm)
            ELSE LET r == check_dirty(sm, c, t, OutPath(t), SourcesOf(t),
                                      AllFlags(t))
                 IN IF r.reason # "CLEAN"
                    THEN mark_loop(Tail(ts),
                                   propagate(MapGet(dependents_, t),
                                             dirty \cup {t}),
                                   r.c, sm)
                    ELSE mark_loop(Tail(ts), dirty, r.c, sm)

\* BuildResult{} (build_orchestrator.hpp:107-133)
NewResult ==
    [success |-> FALSE, total_targets |-> 0, built_targets |-> 0,
     skipped_targets |-> 0, failed_targets |-> 0, has_cycle |-> FALSE,
     cycle_path |-> <<>>, errors |-> <<>>]
add_error(res, error) == [res EXCEPT !.errors = Append(@, error)]

\* ------------------------------------------------------------ run history
\* forward*(t): the names reachable from t along dependencies_ in one or
\* more steps.
RECURSIVE Reach(_, _)
Reach(frontier, seen) ==
    IF frontier = {} THEN seen
    ELSE LET nxt == UNION {SeqToSet(MapGet(dependencies_, n)) : n \in frontier}
                    \ seen
         IN Reach(nxt, seen \cup nxt)
ForwardStar(t) == Reach({t}, {})

\* The events of one run: the build-start events per target, each target's
\* outcome, what held of forward*(t) when t's build started, and whether a
\* build had failed when t was dispatched.
NewHist ==
    [started    |-> [t \in Names |-> 0],
     late       |-> [t \in Names |-> FALSE],
     outcome    |-> [t \in Names |-> "none"],
     deps_done  |-> [t \in Names |-> TRUE],
     dep_failed |-> [t \in Names |-> FALSE]]

\* t is dispatched: taken from the ready queue, or reached by the
\* sequential loop
dispatch(h, t) ==
    [h EXCEPT !.late[t] = \E d \in Names : h.outcome[d] = "failed"]
\* build_single_target(t) is entered
begin_build(h, t) ==
    [h EXCEPT !.started[t] = @ + 1,
              !.outcome[t] = "running",
              !.deps_done[t] = \A d \in ForwardStar(t) \cap Names :
                                   \/ d \notin dirty_targets_
                                   \/ h.outcome[d] = "ok",
              !.dep_failed[t] = \E d \in ForwardStar(t) \cap Names :
                                    h.outcome[d] = "failed"]
\* its compile step returned
end_build(h, t, ok) ==
    [h EXCEPT !.outcome[t] = IF ok THEN "ok" ELSE "failed"]

\* ------------------------------------------------------------------ build()
\* parse_build_file: the build file is the sequence of its section
\* headers, a target's name or InvalidHeader for a header line without
\* "]". Such a line is recorded as an error and skipped together with the
\* keys that follow it; parsing goes on and returns true.
InvalidHeader == "["
IsTargetSection(section) == section # InvalidHeader
RECURSIVE header_errors(_)
header_errors(file) ==
    IF file = <<>> THEN <<>>
    ELSE (IF Head(file) = InvalidHeader
          THEN <<"Invalid section header">> ELSE <<>>)
             \o header_errors(Tail(file))
parse_build_file(file) ==
    [targets |-> SelectSeq(file, IsTargetSection),
     errors |-> header_errors(file)]

\* lines 208-229: the result and the cancel flag are reset; parse_build_file,
\* extract_targets (a push_back on targets_ per target of the file, an error
\* when there is none) and expand_sources.
build_entry ==
    /\ stage = "idle"
    /\ targets_' = targets_ \o parse_build_file(build_file).targets
    /\ result_' =
           LET parsed == [NewResult EXCEPT
                              !.errors = parse_build_file(build_file).errors]
           IN IF targets_' = <<>>
              THEN add_error(parsed, "No valid targets found in build file")
              ELSE [parsed EXCEPT !.total_targets = Len(targets_')]
    /\ stage' = IF targets_' = <<>> THEN "done" ELSE "load"
    /\ cancelled_' = FALSE
    /\ hist' = NewHist
    /\ UNCHANGED <<dependencies_, dependents_, build_order_, dirty_targets_,
                   execVars>>

\* build(), up to the return of expand_sources
build ==
    /\ build_entry
    /\ UNCHANGED <<inVars, smVars, envVars, run, ops, last_check>>

\* line 233: state_.load()
load_state ==
    /\ stage = "load"
    /\ load
    /\ stage' = "scan"
    /\ UNCHANGED <<inVars, targets_, dependencies_, dependents_, build_order_,
                   dirty_targets_, result_, cancelled_, execVars, envVars,
                   histVars>>

\* scan_dependencies (it cannot fail)
scan_dependencies ==
    /\ stage = "scan"
    /\ LET r == scan_loop(targets_, dependencies_, dependents_)
       IN /\ dependencies_' = r.fwd
          /\ dependents_' = r.rev
    /\ stage' = "graph"
    /\ UNCHANGED <<inVars, targets_, build_order_, dirty_targets_, result_,
                   cancelled_, execVars, smVars, envVars, histVars>>

\* build_dependency_graph: the nodes of in-degree 0 enter the queue in the
\* iteration order of an unordered_map, which is any order.
build_dependency_graph ==
    /\ stage = "graph"
    /\ LET in_degree == in_degree_init
           zero == {n \in DOMAIN in_degree : in_degree[n] = 0}
       IN \E ready \in Perms(zero) :
              build_order_' = kahn_loop(ready, in_degree, build_order_)
    /\ stage' = "cycles"
    /\ UNCHANGED <<inVars, targets_, dependencies_, dependents_,
                   dirty_targets_, result_, cancelled_, execVars, smVars,
                   envVars, histVars>>

\* detect_cycles, and build()'s return when it fails (lines 248-252)
detect_cycles ==
    /\ stage = "cycles"
    /\ IF Len(build_order_) # Len(targets_)
       THEN /\ result_' = add_error(
                   [result_ EXCEPT !.cycle_path = @ \o cycle_path_of,
                                   !.has_cycle = TRUE,
                                   !.success = FALSE],
                   "Dependency cycle detected")
            /\ stage' = "done"
       ELSE /\ stage' = "mark"
            /\ UNCHANGED result_
    /\ UNCHANGED <<inVars, targets_, dependencies_, dependents_, build_order_,
                   dirty_targets_, cancelled_, execVars, smVars, envVars,
                   histVars>>

\* mark_dirty_targets
mark_dirty_targets ==
    /\ stage = "mark"
    /\ set_toolchain(ToolchainInfo(config.compiler))
    /\ LET r == mark_loop(targets_, {},
                          Cache(hash_cache_, timestamp_cache_),
                          SM(records_, sm_dirty_, toolchain_',
                             saved_toolchain_'))
       IN /\ dirty_targets_' = r.dirty
          /\ hash_cache_' = r.c.h
          /\ timestamp_cache_' = r.c.t
          /\ result_' = [result_ EXCEPT !.skipped_targets =
                             Len(targets_) - Cardinality(r.dirty)]
    /\ stage' = "exec"
    /\ UNCHANGED <<inVars, targets_, dependencies_, dependents_, build_order_,
                   cancelled_, execVars, records_, sm_dirty_, envVars,
                   histVars>>

\* ------------------------------------------------------ build_single_target
\* The compile step returned: on success the compiler has written the
\* output and update_record stores the record (with no dependencies and no
\* implicit inputs, lines 1120-1131); on failure nothing is stored.
compile_result(t, ok) ==
    IF ok
    THEN /\ files' = [files EXCEPT ![OutPath(t)] =
                         [exists |-> TRUE, content |-> "v1", mtime |-> now]]
         /\ update_record(t, OutPath(t), SourcesOf(t), <<>>, <<>>,
                          AllFlags(t), 0)
    ELSE UNCHANGED <<files, smVars>>

\* execute_builds returns `ok` to build() (lines 263-266)
exec_return(res, ok) ==
    /\ result_' = [res EXCEPT !.success = FALSE]
    /\ stage' = IF ok THEN "save" ELSE "done"

\* ----------------------------------------------------------- execute_builds
\* lines 968-982: dep_count counts the dirty entries of dependencies_[t]
dep_count_init ==
    LET IsDirty(d) == d \in dirty_targets_
    IN [t \in dirty_targets_ |->
           Len(SelectSeq(MapGet(dependencies_, t), IsDirty))]

\* lines 973-982: reverse_deps, filled in the iteration order of the set
RECURSIVE reverse_deps_init(_, _)
reverse_deps_init(order, rev) ==
    IF order = <<>> THEN rev
    ELSE LET IsDirty(d) == d \in dirty_targets_
         IN reverse_deps_init(
                Tail(order),
                add_dependents(
                    rev, SelectSeq(MapGet(dependencies_, Head(order)), IsDirty),
                    Head(order)))

\* The idle worker of a pool
IdleWorker == [pc |-> "idle", target |-> "", ok |-> TRUE, seen |-> 0]

\* A pool that starts one thread more than it was asked for
ThreadPoolExtra(num_threads) == [w \in 1..(num_threads + 1) |-> IdleWorker]
\* ThreadPool(num_threads), lines 124-147: num_threads worker threads, each
\* running one task at a time
ThreadPool(num_threads) == [w \in 1..num_threads |-> IdleWorker]

\* execute_builds up to the first iteration of the executor's loop: nothing
\* to build, the sequential executor, or the set-up of the parallel one
\* (lines 964-1002; dirty_targets_ is iterated in any order).
execute_builds ==
    /\ stage = "exec"
    /\ IF dirty_targets_ = {}
       THEN /\ stage' = "save"
            /\ UNCHANGED execVars
       ELSE IF config.num_threads = 1 \/ config.dry_run
       THEN /\ stage' = "seq"
            /\ seq_idx' = 1
            /\ seq_cur' = ""
            /\ UNCHANGED <<mpc, dep_count, reverse_deps, ready_queue,
                           pool_tasks, workers, built_count, has_failure>>
       ELSE /\ stage' = "par"
            /\ mpc' = "cond"
            /\ dep_count' = dep_count_init
            /\ \E order \in Perms(dirty_targets_) :
                  LET IsReady(t) == dep_count_init[t] = 0
                  IN /\ reverse_deps' = reverse_deps_init(order, EmptyMap)
                     /\ ready_queue' = SelectSeq(order, IsReady)
            /\ pool_tasks' = <<>>
            /\ workers' = ThreadPool(config.num_threads)
            /\ built_count' = 0
            /\ has_failure' = FALSE
            /\ UNCHANGED <<seq_idx, seq_cur>>
    /\ UNCHANGED <<inVars, targets_, dependencies_, dependents_, build_order_,
                   dirty_targets_, result_, cancelled_, smVars, envVars,
                   histVars>>

\* ------------------------------------------------ execute_builds_sequential
\* The head of one iteration (lines 921-938) and the loop's end (line 959):
\* the cancel check, then the skip of a target that is not dirty.
seq_next ==
    /\ stage = "seq"
    /\ seq_cur = ""
    /\ IF seq_idx > Len(build_order_)
       THEN /\ exec_return(result_, result_.failed_targets = 0)
            /\ UNCHANGED seq_idx
       ELSE IF cancelled_
       THEN /\ exec_return(add_error(result_, "Build cancelled"), FALSE)
            /\ UNCHANGED seq_idx
       ELSE /\ ~(/\ build_order_[seq_idx] \in dirty_targets_
                  /\ build_order_[seq_idx] \in TargetNameSet)
            /\ seq_idx' = seq_idx + 1
            /\ UNCHANGED <<stage, result_>>
    /\ UNCHANGED <<inVars, targets_, dependencies_, dependents_, build_order_,
                   dirty_targets_, cancelled_, mpc, seq_cur, dep_count,
                   reverse_deps, ready_queue, pool_tasks, workers, built_count,
                   has_failure, smVars, envVars, histVars>>

\* The guard of the loop body proper: not cancelled, a dirty known target.
seq_body_enabled ==
    /\ stage = "seq"
    /\ seq_cur = ""
    /\ seq_idx <= Len(build_order_)
    /\ ~cancelled_
    /\ build_order_[seq_idx] \in dirty_targets_
    /\ build_order_[seq_idx] \in TargetNameSet

\* lines 947-957: a dry run counts the target as built and compiles nothing
seq_dry_run ==
    /\ seq_body_enabled
    /\ config.dry_run
    /\ result_' = [result_ EXCEPT !.built_targets = @ + 1]
    /\ seq_idx' = seq_idx + 1
    /\ UNCHANGED <<inVars, stage, targets_, dependencies_, dependents_,
                   build_order_, dirty_targets_, cancelled_, mpc, seq_cur,
                   dep_count, reverse_deps, ready_queue, pool_tasks, workers,
                   built_count, has_failure, smVars, envVars, histVars>>

\* line 944: build_single_target is entered
seq_build ==
    /\ seq_body_enabled
    /\ ~config.dry_run
    /\ seq_cur' = build_order_[seq_idx]
    /\ hist' = begin_build(dispatch(hist, build_order_[seq_idx]),
                           build_order_[seq_idx])
    /\ UNCHANGED <<inVars, orchVars, mpc, seq_idx, dep_count, reverse_deps,
                   ready_queue, pool_tasks, workers, built_count, has_failure,
                   smVars, envVars, run, ops, last_check>>

\* build_single_target returns (lines 1109-1135), then lines 944-946, 957:
\* a failure ends the loop under fail_fast and is passed over otherwise.
seq_built(ok) ==
    /\ stage = "seq"
    /\ seq_cur # ""
    /\ compile_result(seq_cur, ok)
    /\ hist' = end_build(hist, seq_cur, ok)
    /\ seq_cur' = ""
    /\ IF ok
       THEN /\ result_' = [result_ EXCEPT !.built_targets = @ + 1]
            /\ seq_idx' = seq_idx + 1
            /\ UNCHANGED stage
       ELSE LET res == [add_error(result_, "Failed to build")
                           EXCEPT !.failed_targets = @ + 1]
            IN IF config.fail_fast
               THEN exec_return(res, FALSE) /\ UNCHANGED seq_idx
               ELSE /\ result_' = res
                    /\ seq_idx' = seq_idx + 1
                    /\ UNCHANGED stage
    /\ UNCHANGED <<inVars, targets_, dependencies_, dependents_, build_order_,
                   dirty_targets_, cancelled_, mpc, dep_count, reverse_deps,
                   ready_queue, pool_tasks, workers, built_count, has_failure,
                   manifest, now, file_epoch, run, ops, last_check>>

\* -------------------------------------------------- execute_builds_parallel
\* A variant under which no dependent ever becomes ready.
is_ready_never(remaining) == remaining < 0
\* A variant that also takes a count of 1 for ready.
is_ready_early(remaining) == remaining <= 1
\* line 1043: a dependent whose count reaches 0 is ready
is_ready(remaining) == remaining = 0

\* lines 1040-1052: each dependent's count is decremented, and a dependent
\* that becomes ready is pushed
RECURSIVE notify_dependents(_, _, _)
notify_dependents(ds, dc, rq) ==
    IF ds = <<>> THEN [dep_count |-> dc, ready_queue |-> rq]
    ELSE LET remaining == dc[Head(ds)] - 1
         IN notify_dependents(
                Tail(ds), [dc EXCEPT ![Head(ds)] = remaining],
                IF is_ready(remaining) THEN Append(rq, Head(ds)) ELSE rq)

\* line 1006: the guard of build_task
task_refused == cancelled_ \/ (config.fail_fast /\ has_failure)

\* lines 1056-1057: the condition of the scheduling loop
main_loop_condition ==
    /\ stage = "par"
    /\ mpc = "cond"
    /\ IF /\ built_count < Cardinality(dirty_targets_)
          /\ ~cancelled_
          /\ ~(config.fail_fast /\ has_failure)
       THEN mpc' = "body" /\ UNCHANGED stage
       ELSE stage' = "wait" /\ UNCHANGED mpc
    /\ UNCHANGED <<inVars, targets_, dependencies_, dependents_, build_order_,
                   dirty_targets_, result_, cancelled_, seq_idx, seq_cur,
                   dep_count, reverse_deps, ready_queue, pool_tasks, workers,
                   built_count, has_failure, smVars, envVars, histVars>>

\* lines 1059-1074: with an empty queue the loop waits and tests its
\* condition again, else the front target is handed to the pool
main_loop_dispatch ==
    /\ stage = "par"
    /\ mpc = "body"
    /\ mpc' = "cond"
    /\ IF ready_queue = <<>>
       THEN UNCHANGED <<ready_queue, pool_tasks, hist>>
       ELSE /\ ready_queue' = Tail(ready_queue)
            /\ pool_tasks' = Append(pool_tasks, Head(ready_queue))
            /\ hist' = dispatch(hist, Head(ready_queue))
    /\ UNCHANGED <<inVars, orchVars, seq_idx, seq_cur, dep_count,
                   reverse_deps, workers, built_count, has_failure, smVars,
                   envVars, run, ops, last_check>>

\* ThreadPool worker, lines 129-137: a worker takes the front task
worker_take(w) ==
    /\ workers[w].pc = "idle"
    /\ pool_tasks # <<>>
    /\ workers' = [workers EXCEPT ![w] =
                       [IdleWorker EXCEPT !.pc = "guard",
                                          !.target = Head(pool_tasks)]]
    /\ pool_tasks' = Tail(pool_tasks)
    /\ UNCHANGED <<inVars, orchVars, mpc, seq_idx, seq_cur, dep_count,
                   reverse_deps, ready_queue, built_count, has_failure,
                   smVars, envVars, histVars>>

\* build_task, lines 1006-1018: the task returns when the build is cancelled
\* or, under fail_fast, has a failure
build_task_guard(w) ==
    /\ workers[w].pc = "guard"
    /\ workers' = [workers EXCEPT ![w] =
                       IF task_refused THEN IdleWorker
                       ELSE [@ EXCEPT !.pc = "start"]]
    /\ UNCHANGED <<inVars, orchVars, mpc, seq_idx, seq_cur, dep_count,
                   reverse_deps, ready_queue, pool_tasks, built_count,
                   has_failure, smVars, envVars, histVars>>

\* build_task, lines 1021-1028: build_single_target is entered
build_task_start(w) ==
    /\ workers[w].pc = "start"
    /\ workers' = [workers EXCEPT ![w].pc = "compile"]
    /\ hist' = begin_build(hist, workers[w].target)
    /\ UNCHANGED <<inVars, orchVars, mpc, seq_idx, seq_cur, dep_count,
                   reverse_deps, ready_queue, pool_tasks, built_count,
                   has_failure, smVars, envVars, run, ops, last_check>>

\* build_single_target, lines 1095-1131, on a worker: the compile step
\* returns; the worker then reads the counter of result_ it is to increment
\* (the increments at lines 1115 and 1133 hold no lock).
build_single_target(w, ok) ==
    /\ workers[w].pc = "compile"
    /\ compile_result(workers[w].target, ok)
    /\ hist' = end_build(hist, workers[w].target, ok)
    /\ result_' = IF ok THEN result_
                  ELSE add_error(result_, "Failed to build")
    /\ workers' = [workers EXCEPT
                       ![w].pc = "count",
                       ![w].ok = ok,
                       ![w].seen = IF ok THEN result_.built_targets
                                   ELSE result_.failed_targets]
    /\ UNCHANGED <<inVars, stage, targets_, dependencies_, dependents_,
                   build_order_, dirty_targets_, cancelled_, mpc, seq_idx,
                   seq_cur, dep_count, reverse_deps, ready_queue, pool_tasks,
                   built_count, has_failure, manifest, now, file_epoch, run,
                   ops, last_check>>

\* lines 1115 and 1133: the incremented counter is written back
count_target(w) ==
    /\ workers[w].pc = "count"
    /\ result_' = IF workers[w].ok
                  THEN [result_ EXCEPT !.built_targets = workers[w].seen + 1]
                  ELSE [result_ EXCEPT !.failed_targets = workers[w].seen + 1]
    /\ workers' = [workers EXCEPT ![w].pc = "post"]
    /\ UNCHANGED <<inVars, stage, targets_, dependencies_, dependents_,
                   build_order_, dirty_targets_, cancelled_, mpc, seq_idx,
                   seq_cur, dep_count, reverse_deps, ready_queue, pool_tasks,
                   built_count, has_failure, smVars, envVars, histVars>>

\* build_task, lines 1030-1052: has_failure, built_count, and the
\* notification of the dependents, whatever the outcome of the build
build_task_post(w) ==
    /\ workers[w].pc = "post"
    /\ has_failure' = (has_failure \/ ~workers[w].ok)
    /\ built_count' = built_count + 1
    /\ LET r == notify_dependents(MapGet(reverse_deps, workers[w].target),
                                  dep_count, ready_queue)
       IN /\ dep_count' = r.dep_count
          /\ ready_queue' = r.ready_queue
    /\ workers' = [workers EXCEPT ![w] = IdleWorker]
    /\ UNCHANGED <<inVars, orchVars, mpc, seq_idx, seq_cur, reverse_deps,
                   pool_tasks, smVars, envVars, histVars>>

\* lines 1078-1085: wait_all returns when no task is queued or running;
\* the pool is destroyed on return
pool_wait_all ==
    /\ stage = "wait"
    /\ pool_tasks = <<>>
    /\ \A w \in DOMAIN workers : workers[w].pc = "idle"
    /\ IF cancelled_
       THEN exec_return(add_error(result_, "Build cancelled"), FALSE)
       ELSE exec_return(result_, result_.failed_targets = 0)
    /\ workers' = <<>>
    /\ UNCHANGED <<inVars, targets_, dependencies_, dependents_, build_order_,
                   dirty_targets_, cancelled_, mpc, seq_idx, seq_cur,
                   dep_count, reverse_deps, ready_queue, pool_tasks,
                   built_count, has_failure, smVars, envVars, histVars>>

\* ------------------------------------------------------- save_state, cancel
\* lines 270-280: save_state (its result is not looked at), then success
save_state ==
    /\ stage = "save"
    /\ \E ok \in BOOLEAN :
           /\ save(ok)
           /\ run' = [run EXCEPT !.saved = ok]
    /\ result_' = [result_ EXCEPT !.success = (result_.failed_targets = 0)]
    /\ stage' = "done"
    /\ UNCHANGED <<inVars, targets_, dependencies_, dependents_, build_order_,
                   dirty_targets_, cancelled_, execVars, smVars, files, now,
                   file_epoch, hist, ops, last_check>>

\* cancel(), from another thread or a signal handler
cancel ==
    /\ stage \notin {"idle", "done"}
    /\ ~cancelled_
    /\ cancelled_' = TRUE
    /\ UNCHANGED <<inVars, stage, targets_, dependencies_, dependents_,
                   build_order_, dirty_targets_, result_, execVars, smVars,
                   envVars, histVars>>

\* ================================================================== inputs
\* Lengths of an output path (output_dir / name) the configurations use: a
\* usual one and two long ones.
PathLengths == {24, 430, 480}
UsualPathLen == CHOOSE n \in PathLengths : \A m \in PathLengths : n <= m
\* The file clock's epoch relative to the system clock's: the same, or one
\* that puts every file time after every system time (as libstdc++'s, whose
\* negative counts get_file_timestamp casts to uint64_t).
EpochSkew == MaxTime + 1

\* BuildConfig (build_orchestrator.hpp); num_threads = 0 is resolved by the
\* constructor.
BuildConfig(fail_fast, num_threads, dry_run, force_rebuild, out_len) ==
    [fail_fast |-> fail_fast, num_threads |-> num_threads,
     dry_run |-> dry_run, force_rebuild |-> force_rebuild,
     compiler |-> "ariac", global_flags |-> <<>>, out_len |-> out_len]

\* The dependencies entry of target t in a build file whose dependency
\* entries are `edges`, a sequence of <<target, dependency>>.
DeclOf(edges, t) ==
    LET Mine(e) == e[1] = t
        mine == SelectSeq(edges, Mine)
    IN [i \in DOMAIN mine |-> mine[i][2]]

\* What the ImportScanner finds in the sources: nothing, or modules that
\* are targets (one of them twice) and a module that is none.
ImportChoices ==
    {[t \in Names |-> <<>>],
     [t \in Names |-> IF t = "b" THEN <<"a", External>>
                      ELSE IF t = "c" THEN <<"b", "b">> ELSE <<>>]}
\* The sets of sources edited since the earlier build
StaleChoices == {{}, {"a"}, {"b"}, {"a", "c"}}

\* A BuildOrchestrator and its StateManager as their constructors leave them
NewProcess ==
    /\ stage = "idle"
    /\ threads = EmptyMap
    /\ interp = Interpolator(EmptyMap)
    /\ abc_out = NoOutput
    /\ targets_ = <<>>
    /\ dependencies_ = EmptyMap
    /\ dependents_ = EmptyMap
    /\ build_order_ = <<>>
    /\ dirty_targets_ = {}
    /\ result_ = NewResult
    /\ cancelled_ = FALSE
    /\ mpc = "cond"
    /\ seq_idx = 1
    /\ seq_cur = ""
    /\ dep_count = EmptyMap
    /\ reverse_deps = EmptyMap
    /\ ready_queue = <<>>
    /\ pool_tasks = <<>>
    /\ workers = <<>>
    /\ built_count = 0
    /\ has_failure = FALSE
    /\ records_ = EmptyMap
    /\ sm_dirty_ = {}
    /\ toolchain_ = NoToolchain
    /\ saved_toolchain_ = NoToolchain
    /\ hash_cache_ = EmptyMap
    /\ timestamp_cache_ = EmptyMap

\* No run and no StateManager call has been observed yet
NoCheck ==
    [kind |-> "none", name |-> "", flags |-> <<>>, reason |-> "",
     conds |-> <<>>, after_update |-> FALSE]
\* What a record was built from; none while no record has been written
NoBuild ==
    [valid |-> FALSE, flags |-> <<>>, toolchain |-> NoToolchain,
     source |-> <<>>, kind |-> "none", dep |-> <<>>, dep_mtime |-> 0]
NewHistory ==
    /\ hist = NewHist
    /\ run = [n |-> 1, saved |-> FALSE, changed |-> FALSE,
              first |-> NewResult, first_saved |-> FALSE, built |-> NoBuild]
    /\ ops = 0
    /\ last_check = NoCheck

\* The record of t an earlier run stored when t's source held "v1", as that
\* run's save wrote it.
PriorRecord(t, epoch) ==
    [output_path |-> OutPath(t),
     source_hash |-> source_hash_of(<<"v1">>),
     command_hash |-> hash_flags(<<>>),
     direct_dependencies |-> <<>>,
     implicit_dependencies |-> <<>>,
     source_timestamp |-> epoch,
     build_timestamp |-> 0,
     build_duration_ms |-> 0]
PriorManifest(built, epoch) ==
    [exists |-> TRUE, version |-> "1.0", toolchain |-> ToolchainInfo("ariac"),
     targets |-> [t \in built |-> PriorRecord(t, epoch)]]

\* The tree an earlier successful run over `built` left, with the sources of
\* `stale` edited since: sources exist, outputs exist for the built targets.
PriorFiles(built, stale) ==
    [p \in Paths |->
        IF \E t \in Names : p = SrcPath(t)
        THEN [exists |-> TRUE,
              content |-> IF \E t \in stale : p = SrcPath(t)
                          THEN "v2" ELSE "v1",
              mtime |-> 0]
        ELSE [exists |-> \E t \in built : p = OutPath(t),
              content |-> "v1", mtime |-> 0]]

\* ---------------------------------------------------------------- SpecPlan
\* `aria_make check` (a dry run) on any build file of the three targets with
\* up to MaxEdges dependency entries, after an earlier build of all targets
\* and an edit of any of the sources.
InitPlan ==
    /\ build_file = <<"a", "b", "c">>
    /\ \E edges \in SeqsUpTo(Names \X AllNames, MaxEdges) :
           decl = [t \in Names |-> DeclOf(edges, t)]
    /\ imports \in ImportChoices
    /\ config = BuildConfig(TRUE, 1, TRUE, FALSE, UsualPathLen)
    /\ NewProcess
    /\ doc = NoDocument
    /\ environ = EmptyMap
    /\ \E stale \in StaleChoices : files = PriorFiles(Names, stale)
    /\ manifest = PriorManifest(Names, EpochSkew)
    /\ now = 1
    /\ file_epoch = EpochSkew
    /\ NewHistory

NextPlan ==
    \/ build
    \/ load_state
    \/ scan_dependencies
    \/ build_dependency_graph
    \/ detect_cycles
    \/ mark_dirty_targets
    \/ execute_builds
    \/ seq_next
    \/ seq_dry_run
    \/ save_state

SpecPlan == InitPlan /\ [][NextPlan]_vars

\* ---------------------------------------------------------------- SpecExec
\* `aria_make build` with one or two threads under either failure policy,
\* on the acyclic build files of the three targets (a dependency names a
\* target earlier in the alphabet; an entry may be repeated), after an
\* earlier build and an edit of some or all of the sources. Every compile
\* step may fail and the build may be cancelled at any moment.
DagPairs == {<<"b", "a">>, <<"c", "a">>, <<"c", "b">>}
ThreadCounts == {1, 2}
ExecStale == {{"b"}, Names}

InitExec ==
    /\ build_file = <<"a", "b", "c">>
    /\ \E edges \in SeqsUpTo(DagPairs, MaxEdges) :
           decl = [t \in Names |-> DeclOf(edges, t)]
    /\ imports = [t \in Names |-> <<>>]
    /\ \E ff \in BOOLEAN, n \in ThreadCounts :
           config = BuildConfig(ff, n, FALSE, FALSE, UsualPathLen)
    /\ NewProcess
    /\ doc = NoDocument
    /\ environ = EmptyMap
    /\ \E stale \in ExecStale : files = PriorFiles(Names, stale)
    /\ manifest = PriorManifest(Names, EpochSkew)
    /\ now = 1
    /\ file_epoch = EpochSkew
    /\ NewHistory

NextExec ==
    \/ build
    \/ load_state
    \/ scan_dependencies
    \/ build_dependency_graph
    \/ detect_cycles
    \/ mark_dirty_targets
    \/ execute_builds
    \/ seq_next
    \/ seq_build
    \/ \E ok \in BOOLEAN : seq_built(ok)
    \/ main_loop_condition
    \/ main_loop_dispatch
    \/ \E w \in DOMAIN workers : worker_take(w)
    \/ \E w \in DOMAIN workers : build_task_guard(w)
    \/ \E w \in DOMAIN workers : build_task_start(w)
    \/ \E w \in DOMAIN workers, ok \in BOOLEAN : build_single_target(w, ok)
    \/ \E w \in DOMAIN workers : count_target(w)
    \/ \E w \in DOMAIN workers : build_task_post(w)
    \/ pool_wait_all
    \/ save_state
    \/ cancel

SpecExec == InitExec /\ [][NextExec]_vars

\* ================================================================== claims
\* The stages build() is in once detect_cycles has returned.
AfterDetect == stage \in {"mark", "exec", "seq", "par", "wait", "save", "done"}
\* The forward graph has a directed cycle through a target.
HasForwardCycle == \E t \in TargetNameSet : t \in ForwardStar(t)
\* Every dependency names a target of the build file.
DepsKnown ==
    \A t \in DOMAIN dependencies_ :
        SeqToSet(dependencies_[t]) \subseteq TargetNameSet
\* Some build has failed, in the run so far.
SomeFailed == \E t \in Names : hist.outcome[t] = "failed"

DepsBeforeDependent ==
    \A t \in Names : hist.outcome[t] = "ok" => hist.deps_done[t]

\* C3: under keep_going no target is started of which a transitive
\* dependency has failed.
FailedQuarantined ==
    ~config.fail_fast => \A t \in Names : ~hist.dep_failed[t]

\* C4: under fail_fast, once a build has failed no further build is
\* started: a target dispatched after the failure is never built (the
\* targets dispatched before it are in flight and run to completion).
NoStartAfterFailure ==
    config.fail_fast =>
        \A t \in Names : hist.late[t] => hist.started[t] = 0

\* C5: the dirty set mark_dirty_targets leaves is closed under reverse
\* edges: with A it holds every target T that has A in forward*(T).
DirtyClosed ==
    \A A \in dirty_targets_ : \A T \in TargetNameSet :
        A \in ForwardStar(T) => T \in dirty_targets_
\* C5 witness: only a's source was edited, and c, which does not name a
\* among its own dependencies, is dirty through b.
DirtyClosedWitness ==
    /\ stage = "exec"
    /\ files[SrcPath("b")].content = "v1"
    /\ files[SrcPath("c")].content = "v1"
    /\ files[SrcPath("a")].content = "v2"
    /\ ~Contains(dependencies_["c"], "a")
    /\ dirty_targets_ = Names

\* C6: planning reports a cycle exactly when the forward graph has one.
CycleIffReported == AfterDetect => (result_.has_cycle <=> HasForwardCycle)

\* C7: a reported cycle path of a graph that has a cycle, and whose
\* dependencies all name targets, is a closed walk of forward edges.
CyclePathClosedWalk ==
    (result_.has_cycle /\ HasForwardCycle /\ DepsKnown) =>
        LET p == result_.cycle_path
        IN /\ Len(p) >= 2
           /\ p[1] = p[Len(p)]
           /\ \A i \in 1..(Len(p) - 1) :
                  Contains(dependencies_[p[i]], p[i + 1])

\* ---------------------------------------------------------------- SpecState
\* A StateManager used directly, as the tests do: the target "a" with its
\* source and output, a second file as its dependency, any calls in any
\* order, the files written and removed and the clock advancing between
\* them.
DepFile == SrcPath("b")
StatePaths == {SrcPath("a"), OutPath("a"), DepFile}
\* The (resolved_deps, implicit_deps) arguments of update_record
UpdateArgs ==
    {<<<<>>, <<>>>>, <<<<>>, <<DepFile>>>>}
    \cup {<<<<[path |-> DepFile, hash |-> <<c>>]>>, <<>>>> : c \in Contents}

\* The condition of each rule of check_dirty at a call, each evaluated on
\* its own, in the order in which check_dirty tests them (lines 129-188).
RuleConds(flags) ==
    LET c == Cache(hash_cache_, timestamp_cache_)
        has == "a" \in DOMAIN records_
    IN << ~fs_exists(OutPath("a")),
          ~has,
          "a" \in sm_dirty_,
          toolchain_ # saved_toolchain_,
          has /\ hash_flags(flags) # records_["a"].command_hash,
          has /\ source_hash_of(combine_sources(c, SourcesOf("a"), <<>>).val)
                     # records_["a"].source_hash,
          has /\ deps_changed(c, records_["a"].direct_dependencies).val,
          has /\ implicit_changed(records_["a"]) >>

Observed(kind) == [NoCheck EXCEPT !.kind = kind]

sm_update_record(flags, args) ==
    /\ ops < MaxOps
    /\ update_record("a", OutPath("a"), SourcesOf("a"), args[1], args[2],
                     flags, 0)
    /\ ops' = ops + 1
    /\ last_check' = [Observed("update") EXCEPT !.flags = flags]
    /\ UNCHANGED <<inVars, orchVars, execVars, envVars, hist, run>>

\* check_dirty changes the hash cache only and is not counted.
sm_check_dirty(flags) ==
    /\ LET r == check_dirty(CurrentSM, Cache(hash_cache_, timestamp_cache_),
                            "a", OutPath("a"), SourcesOf("a"), flags)
       IN /\ hash_cache_' = r.c.h
          /\ timestamp_cache_' = r.c.t
          /\ last_check' =
                 [kind |-> "check", name |-> "a", flags |-> flags,
                  reason |-> r.reason,
                  conds |-> RuleConds(flags),
                  after_update |-> /\ last_check.kind = "update"
                                   /\ last_check.flags = flags]
    /\ UNCHANGED <<inVars, orchVars, execVars, records_, sm_dirty_,
                   toolchain_, saved_toolchain_, envVars, hist, run, ops>>

sm_mark_dirty ==
    /\ ops < MaxOps
    /\ mark_dirty("a")
    /\ ops' = ops + 1
    /\ last_check' = Observed("mark_dirty")
    /\ UNCHANGED <<inVars, orchVars, execVars, toolchain_, saved_toolchain_,
                   hash_cache_, timestamp_cache_, envVars, hist, run>>

sm_invalidate ==
    /\ ops < MaxOps
    /\ invalidate("a")
    /\ ops' = ops + 1
    /\ last_check' = Observed("invalidate")
    /\ UNCHANGED <<inVars, orchVars, execVars, toolchain_, saved_toolchain_,
                   hash_cache_, timestamp_cache_, envVars, hist, run>>

sm_clear ==
    /\ ops < MaxOps
    /\ clear
    /\ ops' = ops + 1
    /\ last_check' = Observed("clear")
    /\ UNCHANGED <<inVars, orchVars, execVars, toolchain_, saved_toolchain_,
                   envVars, hist, run>>

sm_set_toolchain(compiler) ==
    /\ ops < MaxOps
    /\ set_toolchain(ToolchainInfo(compiler))
    /\ ops' = ops + 1
    /\ last_check' = [Observed("set_toolchain") EXCEPT !.name = compiler]
    /\ UNCHANGED <<inVars, orchVars, execVars, records_, sm_dirty_,
                   hash_cache_, timestamp_cache_, envVars, hist, run>>

sm_load ==
    /\ ops < MaxOps
    /\ load
    /\ ops' = ops + 1
    /\ last_check' = Observed("other")
    /\ UNCHANGED <<inVars, orchVars, execVars, envVars, hist, run>>

sm_save ==
    /\ ops < MaxOps
    /\ \E ok \in BOOLEAN : save(ok)
    /\ ops' = ops + 1
    /\ last_check' = Observed("other")
    /\ UNCHANGED <<inVars, orchVars, execVars, smVars, files, now,
                   file_epoch, hist, run>>

\* The environment: a file is written (its mtime is the clock's second) or
\* removed, a second passes.
file_write(path, content) ==
    /\ ops < MaxOps
    /\ files' = [files EXCEPT ![path] =
                     [exists |-> TRUE, content |-> content, mtime |-> now]]
    /\ ops' = ops + 1
    /\ last_check' = Observed("other")
    /\ run' = [run EXCEPT !.changed = TRUE]
    /\ UNCHANGED <<inVars, orchVars, execVars, smVars, manifest, now,
                   file_epoch, hist>>

file_remove(path) ==
    /\ ops < MaxOps
    /\ files[path].exists
    /\ files' = [files EXCEPT ![path].exists = FALSE]
    /\ ops' = ops + 1
    /\ last_check' = Observed("other")
    /\ run' = [run EXCEPT !.changed = TRUE]
    /\ UNCHANGED <<inVars, orchVars, execVars, smVars, manifest, now,
                   file_epoch, hist>>

tick ==
    /\ ops < MaxOps
    /\ now < MaxTime
    /\ now' = now + 1
    /\ ops' = ops + 1
    /\ last_check' = Observed("other")
    /\ UNCHANGED <<inVars, orchVars, execVars, smVars, files, manifest,
                   file_epoch, hist, run>>

\* The tree and the manifest at the start: nothing built yet, "a" built by
\* an earlier process, or built and its source edited since.
InitState ==
    /\ build_file = <<"a">>
    /\ decl = [t \in Names |-> <<>>]
    /\ imports = [t \in Names |-> <<>>]
    /\ config = BuildConfig(TRUE, 1, FALSE, FALSE, UsualPathLen)
    /\ NewProcess
    /\ doc = NoDocument
    /\ environ = EmptyMap
    /\ file_epoch \in {0, EpochSkew}
    /\ \/ /\ files = PriorFiles({}, {})
          /\ manifest = NoManifest
       \/ /\ \E stale \in {{}, {"a"}} : files = PriorFiles({"a"}, stale)
          /\ manifest = PriorManifest({"a"}, file_epoch)
    /\ now = 1
    /\ NewHistory

NextState ==
    \/ \E flags \in FlagLists, args \in UpdateArgs :
           sm_update_record(flags, args)
    \/ \E flags \in FlagLists : sm_check_dirty(flags)
    \/ sm_mark_dirty
    \/ sm_invalidate
    \/ sm_clear
    \/ \E compiler \in Compilers : sm_set_toolchain(compiler)
    \/ sm_load
    \/ sm_save
    \/ \E path \in StatePaths, content \in Contents : file_write(path, content)
    \/ \E path \in StatePaths : file_remove(path)
    \/ tick

SpecState == InitState /\ [][NextState]_vars

\* The reasons other than CLEAN, in the order of check_dirty's rules
ReasonOrder ==
    <<"MISSING_ARTIFACT", "MISSING_RECORD", "DEPENDENCY_DIRTY",
      "TOOLCHAIN_CHANGED", "FLAGS_CHANGED", "SOURCE_CHANGED",
      "DEPENDENCY_CHANGED", "IMPLICIT_DEP_CHANGED">>
\* The reason of the first condition that holds, CLEAN when none does
FirstReason(conds) ==
    IF \E i \in DOMAIN conds : conds[i]
    THEN ReasonOrder[CHOOSE i \in DOMAIN conds :
                         conds[i] /\ \A j \in 1..(i - 1) : ~conds[j]]
    ELSE "CLEAN"

\* C9: check_dirty returns the reason of the first rule, in the fixed
\* order, whose condition holds, and CLEAN only when no condition holds.
FirstMatchWins ==
    last_check.kind = "check" =>
        last_check.reason = FirstReason(last_check.conds)
\* C9 witness: the flags and the source have both changed and the reason
\* is FLAGS_CHANGED.
FirstMatchWinsWitness ==
    /\ last_check.kind = "check"
    /\ last_check.conds[5]
    /\ last_check.conds[6]
    /\ \A i \in 1..4 : ~last_check.conds[i]
    /\ last_check.reason = "FLAGS_CHANGED"

\* C10: check_dirty called right after update_record, with the same flags
\* and the output present, returns CLEAN.
CleanAfterUpdate ==
    (/\ last_check.kind = "check"
     /\ last_check.after_update
     /\ fs_exists(OutPath("a")))
        => last_check.reason = "CLEAN"

\* C10, with the toolchain as loaded, every recorded dependency carrying
\* the file's present digest and every implicit input present.
CleanAfterUpdateSettled ==
    (/\ last_check.kind = "check"
     /\ last_check.after_update
     /\ fs_exists(OutPath("a"))
     /\ toolchain_ = saved_toolchain_
     /\ \A i \in DOMAIN records_["a"].direct_dependencies :
            LET dep == records_["a"].direct_dependencies[i]
            IN fs_exists(dep.path) /\ sha256_file(dep.path) = dep.hash
     /\ \A i \in DOMAIN records_["a"].implicit_dependencies :
            fs_exists(records_["a"].implicit_dependencies[i]))
        => last_check.reason = "CLEAN"

\* ---------------------------------------------------------------- SpecPipe
\* `aria_make build` run twice, each run a process of its own (main.cpp
\* constructs one orchestrator and calls one operation), single-threaded,
\* on a tree in which nothing is built yet, for each length of the output
\* paths. Between the runs sources may be edited and time may pass.
InitPipe ==
    /\ build_file = <<"a", "b", "c">>
    /\ \E edges \in SeqsUpTo(DagPairs, MaxEdges) :
           decl = [t \in Names |-> DeclOf(edges, t)]
    /\ imports = [t \in Names |-> <<>>]
    /\ \E len \in PathLengths :
           config = BuildConfig(TRUE, 1, FALSE, FALSE, len)
    /\ NewProcess
    /\ doc = NoDocument
    /\ environ = EmptyMap
    /\ files = PriorFiles({}, {})
    /\ manifest = NoManifest
    /\ now = 1
    /\ file_epoch = EpochSkew
    /\ NewHistory

\* The first process has exited and the second one is started: its
\* orchestrator and StateManager are newly constructed.
constructed ==
    /\ stage' = "idle"
    /\ targets_' = <<>>
    /\ dependencies_' = EmptyMap
    /\ dependents_' = EmptyMap
    /\ build_order_' = <<>>
    /\ dirty_targets_' = {}
    /\ result_' = NewResult
    /\ cancelled_' = FALSE
    /\ mpc' = "cond"
    /\ seq_idx' = 1
    /\ seq_cur' = ""
    /\ dep_count' = EmptyMap
    /\ reverse_deps' = EmptyMap
    /\ ready_queue' = <<>>
    /\ pool_tasks' = <<>>
    /\ workers' = <<>>
    /\ built_count' = 0
    /\ has_failure' = FALSE
    /\ records_' = EmptyMap
    /\ sm_dirty_' = {}
    /\ toolchain_' = NoToolchain
    /\ saved_toolchain_' = NoToolchain
    /\ hash_cache_' = EmptyMap
    /\ timestamp_cache_' = EmptyMap

new_process ==
    /\ stage = "done"
    /\ run.n = 1
    /\ run' = [run EXCEPT !.n = 2, !.first = result_, !.first_saved = run.saved]
    /\ constructed
    /\ UNCHANGED <<inVars, envVars, hist, ops, last_check>>

\* Between the runs: a source is edited, a second passes.
edit_between_runs ==
    /\ stage = "done"
    /\ run.n = 1
    /\ \E t \in Names : file_write(SrcPath(t), "v2")

wait_between_runs ==
    /\ stage = "done"
    /\ run.n = 1
    /\ tick

NextPipe ==
    \/ build
    \/ load_state
    \/ scan_dependencies
    \/ build_dependency_graph
    \/ detect_cycles
    \/ mark_dirty_targets
    \/ execute_builds
    \/ seq_next
    \/ seq_build
    \/ \E ok \in BOOLEAN : seq_built(ok)
    \/ save_state
    \/ edit_between_runs
    \/ wait_between_runs
    \/ new_process

SpecPipe == InitPipe /\ [][NextPipe]_vars

\* C8: when the first run succeeded (and wrote its state file) and no
\* source, flag or toolchain has changed since, the second run builds
\* nothing: built_targets = 0 and skipped_targets = total_targets.
IdempotentRebuild ==
    (/\ run.n = 2
     /\ stage = "done"
     /\ run.first.success
     /\ run.first_saved
     /\ ~run.changed)
        => /\ result_.built_targets = 0
           /\ result_.skipped_targets = result_.total_targets

\* ---------------------------------------------------------------- SpecReload
\* A StateManager records one successful build of "a" and saves its state;
\* a second process constructs a new StateManager and loads it. The files
\* source and the dependency are edited and the clock advances at any
\* point, and check_dirty is called at any point.
\* The duration of the recorded build, in milliseconds
BuildDurations == {7}
DepKinds == {"none", "direct", "implicit"}

\* The (resolved_deps, implicit_deps) a build passes: a direct dependency
\* carries the digest of the file as it is at the build.
BuildArgs(kind) ==
    << IF kind = "direct"
       THEN <<[path |-> DepFile, hash |-> sha256_file(DepFile)]>> ELSE <<>>,
       IF kind = "implicit" THEN <<DepFile>> ELSE <<>> >>

rl_set_toolchain(compiler) ==
    /\ toolchain_ = NoToolchain
    /\ set_toolchain(ToolchainInfo(compiler))
    /\ last_check' = Observed("other")
    /\ UNCHANGED <<inVars, orchVars, execVars, records_, sm_dirty_,
                   hash_cache_, timestamp_cache_, envVars, hist, run, ops>>

rl_update_record(flags, kind, duration) ==
    /\ run.n = 1
    /\ ~run.built.valid
    /\ fs_exists(SrcPath("a"))
    /\ fs_exists(OutPath("a"))
    /\ update_record("a", OutPath("a"), SourcesOf("a"), BuildArgs(kind)[1],
                     BuildArgs(kind)[2], flags, duration)
    /\ run' = [run EXCEPT !.built =
                   [valid |-> TRUE, flags |-> flags, toolchain |-> toolchain_,
                    source |-> sha256_file(SrcPath("a")), kind |-> kind,
                    dep |-> sha256_file(DepFile),
                    dep_mtime |-> files[DepFile].mtime]]
    /\ last_check' = [Observed("update") EXCEPT !.flags = flags]
    /\ UNCHANGED <<inVars, orchVars, execVars, envVars, hist, ops>>

rl_save ==
    /\ run.n = 1
    /\ run.built.valid
    /\ ~run.saved
    /\ \E ok \in BOOLEAN :
           /\ save(ok)
           /\ run' = [run EXCEPT !.saved = ok]
    /\ last_check' = Observed("other")
    /\ UNCHANGED <<inVars, orchVars, execVars, smVars, files, now,
                   file_epoch, hist, ops>>

\* The first process exits; the second constructs its StateManager.
rl_restart ==
    /\ run.n = 1
    /\ run.built.valid
    /\ run' = [run EXCEPT !.n = 2]
    /\ records_' = EmptyMap
    /\ sm_dirty_' = {}
    /\ toolchain_' = NoToolchain
    /\ saved_toolchain_' = NoToolchain
    /\ hash_cache_' = EmptyMap
    /\ timestamp_cache_' = EmptyMap
    /\ last_check' = Observed("other")
    /\ UNCHANGED <<inVars, orchVars, execVars, envVars, hist, ops>>

rl_load ==
    /\ run.n = 2
    /\ load
    /\ last_check' = Observed("load")
    /\ UNCHANGED <<inVars, orchVars, execVars, envVars, hist, run, ops>>

InitReload ==
    /\ build_file = <<"a">>
    /\ decl = [t \in Names |-> <<>>]
    /\ imports = [t \in Names |-> <<>>]
    /\ \E len \in PathLengths :
           config = BuildConfig(TRUE, 1, FALSE, FALSE, len)
    /\ NewProcess
    /\ doc = NoDocument
    /\ environ = EmptyMap
    /\ file_epoch \in {0, EpochSkew}
    /\ files = PriorFiles({"a"}, {})
    /\ manifest = NoManifest
    /\ now = 1
    /\ NewHistory

NextReload ==
    \/ \E compiler \in Compilers : rl_set_toolchain(compiler)
    \/ \E flags \in FlagLists, kind \in DepKinds, duration \in BuildDurations :
           rl_update_record(flags, kind, duration)
    \/ rl_save
    \/ rl_restart
    \/ rl_load
    \/ \E flags \in FlagLists : sm_check_dirty(flags)
    \/ \E path \in {SrcPath("a"), DepFile} : file_write(path, "v2")
    \/ tick

SpecReload == InitReload /\ [][NextReload]_vars

\* A change, since the record of "a" was built, in the flags, the source's
\* content, the toolchain, the direct dependency's content or the implicit
\* dependency's modification time.
ChangedSinceBuild(flags) ==
    LET b == run.built
    IN \/ flags # b.flags
       \/ fs_exists(SrcPath("a")) /\ sha256_file(SrcPath("a")) # b.source
       \/ b.toolchain # NoToolchain /\ toolchain_ # b.toolchain
       \/ b.kind = "direct" /\ sha256_file(DepFile) # b.dep
       \/ b.kind = "implicit" /\ (\/ ~fs_exists(DepFile)
                                  \/ files[DepFile].mtime # b.dep_mtime)

\* C11: after a successful build of "a" was recorded, a check_dirty made
\* after any change of the source content, the flags, the toolchain, the
\* direct dependency's content or the implicit dependency's mtime returns a
\* reason other than CLEAN, in the recording StateManager and in one that
\* loaded the saved state.
ChangeDetected ==
    (/\ last_check.kind = "check"
     /\ run.built.valid
     /\ ChangedSinceBuild(last_check.flags))
        => last_check.reason # "CLEAN"

\* C12: what a new StateManager holds after load() equals what save()
\* wrote: the same target names and, for each record, the same output
\* path, source_hash, command_hash, direct and implicit dependencies,
\* timestamps and duration, and the saved toolchain.
RoundTrip ==
    (last_check.kind = "load" /\ manifest.exists) =>
        /\ DOMAIN records_ = DOMAIN manifest.targets
        /\ \A n \in DOMAIN manifest.targets :
               n \in DOMAIN records_ /\ records_[n] = manifest.targets[n]
        /\ saved_toolchain_ = manifest.toolchain

\* ---------------------------------------------------------------- SpecCheck
\* `aria_make check`: a dry run with one or two threads on the acyclic
\* build files, in a tree an earlier build left (some sources edited
\* since), whose state file is absent or was written under either compiler.
InitCheck ==
    /\ build_file = <<"a", "b", "c">>
    /\ \E edges \in SeqsUpTo(DagPairs, MaxEdges) :
           decl = [t \in Names |-> DeclOf(edges, t)]
    /\ imports = [t \in Names |-> <<>>]
    /\ \E n \in ThreadCounts :
           config = BuildConfig(TRUE, n, TRUE, FALSE, UsualPathLen)
    /\ NewProcess
    /\ doc = NoDocument
    /\ environ = EmptyMap
    /\ \E stale \in StaleChoices : files = PriorFiles(Names, stale)
    /\ \/ manifest = NoManifest
       \/ \E compiler \in Compilers :
              manifest = [PriorManifest(Names, EpochSkew) EXCEPT
                              !.toolchain = ToolchainInfo(compiler)]
    /\ now = 1
    /\ file_epoch = EpochSkew
    /\ NewHistory

NextCheck ==
    \/ build
    \/ load_state
    \/ scan_dependencies
    \/ build_dependency_graph
    \/ detect_cycles
    \/ mark_dirty_targets
    \/ execute_builds
    \/ seq_next
    \/ seq_dry_run
    \/ save_state

SpecCheck == InitCheck /\ [][NextCheck]_vars

\* C13: no step of a dry run writes a file (no compile or archive step
\* runs), inserts or replaces a record (the records change only when the
\* state file is loaded), or changes the state file.
DryRunFrame ==
    [][config.dry_run =>
           /\ files' = files
           /\ stage # "load" => records_' = records_
           /\ manifest' = manifest]_vars

\* The stages in which execute_builds runs
ExecStages == {"seq", "par", "wait"}

\* C14: when the cancellation flag was set while targets were being built,
\* execute_builds returns failure and build() ends with success = false and
\* the diagnostic "Build cancelled" among its errors.
CancelReported ==
    [][(/\ stage \in ExecStages
        /\ stage' \notin ExecStages
        /\ cancelled_
        /\ \E t \in Names : hist.started[t] > 0)
           => /\ stage' = "done"
              /\ ~result_'.success
              /\ Contains(result_'.errors, "Build cancelled")]_vars

\* The targets whose build_single_target call has begun and not returned
InFlight == {t \in Names : hist.outcome[t] = "running"}

\* C15: at every instant at most num_threads target builds are in flight.
WorkerBudget == Cardinality(InFlight) <= config.num_threads
\* C15 witness: two threads, two builds in flight and a third target ready
\* and waiting for a thread.
WorkerBudgetWitness ==
    /\ stage = "par"
    /\ config.num_threads = 2
    /\ Cardinality(InFlight) = 2
    /\ pool_tasks # <<>>

\* ------------------------------------------------------------------ SpecSave
\* save() step by step: the ofstream opens the state file (which truncates
\* it), the text reaches the file in pieces as the stream's buffer is
\* flushed, and the stream is closed when save returns. The process can be
\* killed at any point of a save; a new process then loads the file.
\* `stage` is "saving" between the open and the close.
EmptyFile ==
    [exists |-> TRUE, version |-> "", toolchain |-> NoToolchain,
     targets |-> EmptyMap]
\* The head of serialize()'s text: the version, the toolchain and the
\* records of `done`.
WrittenPrefix(done) ==
    [serialize EXCEPT !.targets = [n \in done |-> records_[n]]]

save_open(ok) ==
    /\ stage = "idle"
    /\ ops < MaxOps
    /\ IF ok
       THEN manifest' = EmptyFile /\ stage' = "saving"
       ELSE UNCHANGED <<manifest, stage>>
    /\ ops' = ops + 1
    /\ last_check' = Observed("other")
    /\ UNCHANGED <<inVars, targets_, dependencies_, dependents_, build_order_,
                   dirty_targets_, result_, cancelled_, execVars, smVars,
                   files, now, file_epoch, hist, run>>

save_flush(done) ==
    /\ stage = "saving"
    /\ done # DOMAIN records_
    /\ DOMAIN manifest.targets \subseteq done
    /\ manifest # WrittenPrefix(done)
    /\ manifest' = WrittenPrefix(done)
    /\ UNCHANGED <<inVars, orchVars, execVars, smVars, files, now,
                   file_epoch, histVars>>

save_close ==
    /\ stage = "saving"
    /\ manifest' = serialize
    /\ stage' = "idle"
    /\ UNCHANGED <<inVars, targets_, dependencies_, dependents_, build_order_,
                   dirty_targets_, result_, cancelled_, execVars, smVars,
                   files, now, file_epoch, histVars>>

\* The process is killed during a save; the next process starts.
save_interrupt ==
    /\ stage = "saving"
    /\ run.n = 1
    /\ stage' = "idle"
    /\ run' = [run EXCEPT !.n = 2]
    /\ records_' = EmptyMap
    /\ sm_dirty_' = {}
    /\ toolchain_' = NoToolchain
    /\ saved_toolchain_' = NoToolchain
    /\ hash_cache_' = EmptyMap
    /\ timestamp_cache_' = EmptyMap
    /\ last_check' = Observed("other")
    /\ UNCHANGED <<inVars, targets_, dependencies_, dependents_, build_order_,
                   dirty_targets_, result_, cancelled_, execVars, envVars,
                   hist, ops>>

\* The other calls are made outside a save.
sv_call ==
    /\ stage = "idle"
    /\ \/ \E flags \in FlagLists, args \in UpdateArgs :
              sm_update_record(flags, args)
       \/ \E compiler \in Compilers : sm_set_toolchain(compiler)
       \/ sm_clear
       \/ sm_load

InitSave ==
    /\ build_file = <<"a">>
    /\ decl = [t \in Names |-> <<>>]
    /\ imports = [t \in Names |-> <<>>]
    /\ config = BuildConfig(TRUE, 1, FALSE, FALSE, UsualPathLen)
    /\ NewProcess
    /\ doc = NoDocument
    /\ environ = EmptyMap
    /\ file_epoch \in {0, EpochSkew}
    /\ files = PriorFiles({"a"}, {})
    /\ \/ manifest = NoManifest
       \/ manifest = PriorManifest({"a"}, file_epoch)
    /\ now = 1
    /\ NewHistory

NextSave ==
    \/ \E ok \in BOOLEAN : save_open(ok)
    \/ \E done \in SUBSET DOMAIN records_ : save_flush(done)
    \/ save_close
    \/ save_interrupt
    \/ sv_call

SpecSave == InitSave /\ [][NextSave]_vars

\* C16: save() replaces the manifest atomically: every step of a save
\* either leaves the state file as it was or puts the complete new
\* manifest (the whole of serialize()) in its place, so that the file is
\* never truncated or partial, whether or not the save is interrupted.
SaveAtomic ==
    [][manifest' = manifest \/ manifest' = serialize]_vars

\* ------------------------------------------------------------------ SpecDoc
\* resolveDocument on any parsed document of up to two global variables A
\* and B and one or two targets, each with at most one local variable and
\* one string member, under any of three environments. `doc` stays the
\* document as parsed; abc_out.doc is the document as the call leaves it.
VarNames == {<<"A">>, <<"B">>}
EnvName == <<"ENV.", "H">>
GlobalContents == {<<"g">>, Ref(<<"A">>), Ref(EnvName)}
LocalContents == {<<"l">>, Ref(<<"A">>)}
MemberContents == {Ref(<<"A">>), Ref(<<"B">>), <<"x">> \o Ref(<<"B">>)}
TargetCounts == {1, 2}
Environments ==
    {EmptyMap, [n \in {<<"H">>} |-> <<"h">>],
     [n \in {<<"H">>} |-> <<"&{", "A">>]}

Member(key, content) == [key |-> key, value |-> parseString(content)]
\* The `variables` objects with distinct keys out of `keys`
VariableObjects(keys, contents) ==
    {<<>>}
    \cup {<<Member(k, c)>> : k \in keys, c \in contents}
    \cup {<<Member(k[1], c[1]), Member(k[2], c[2])>> :
              k \in {kk \in keys \X keys : kk[1] # kk[2]},
              c \in contents \X contents}
TargetObjects ==
    {[variables |-> v, members |-> <<Member(<<"flags">>, c)>>] :
         v \in {vv \in VariableObjects(VarNames, LocalContents) :
                    Len(vv) <= 1},
         c \in MemberContents}
Documents ==
    {[variables |-> v, targets |-> ts] :
         v \in VariableObjects(VarNames, GlobalContents),
         ts \in UNION {[1..n -> TargetObjects] : n \in TargetCounts}}

resolve_document ==
    /\ abc_out.kind = "none"
    /\ doc.targets # <<>>
    /\ abc_out' = resolveDocument(doc)
    /\ UNCHANGED <<build_file, decl, imports, config, threads, doc, environ, interp,
                   orchVars, execVars, smVars, envVars, histVars>>

InitDoc ==
    /\ build_file = <<"a">>
    /\ decl = [t \in Names |-> <<>>]
    /\ imports = [t \in Names |-> <<>>]
    /\ config = BuildConfig(TRUE, 1, FALSE, FALSE, UsualPathLen)
    /\ NewProcess
    /\ doc \in Documents
    /\ environ \in Environments
    /\ file_epoch = 0
    /\ files = PriorFiles({}, {})
    /\ manifest = NoManifest
    /\ now = 1
    /\ NewHistory

NextDoc == resolve_document

SpecDoc == InitDoc /\ [][NextDoc]_vars

\* The member of `members` that defines name, <<>> when there is none
Defined(members, name) ==
    LET at == {i \in DOMAIN members : members[i].key = name}
    IN IF at = {} THEN <<>> ELSE <<members[CHOOSE i \in at : TRUE].value>>

\* C17: a target's member that is the reference &{NAME} resolves to the
\* target's local variable NAME when the target defines one and to the
\* global variable NAME otherwise, in every target of the document and
\* whatever was resolved before it (here for variables given as literals,
\* in a document none of whose resolutions fails).
ScopePrecedence ==
    (abc_out.kind = "document" /\ abc_out.dropped = <<>>) =>
        \A t \in DOMAIN doc.targets, name \in VarNames :
            LET local == Defined(doc.targets[t].variables, name)
                global == Defined(doc.variables, name)
                chosen == IF local # <<>> THEN local ELSE global
            IN (/\ doc.targets[t].members[1].value = parseString(Ref(name))
                /\ chosen # <<>>
                /\ chosen[1].kind = "LiteralString")
               => abc_out.doc.targets[t].members[1].value = chosen[1]

\* C18: when the resolution of any string of the document fails (an
\* undefined variable, an environment variable that is not set, a circular
\* reference, an unterminated placeholder), resolveDocument returns false
\* and hasErrors() is true.
FailureReported ==
    (abc_out.kind = "document" /\ abc_out.dropped # <<>>)
        => ~abc_out.ret /\ abc_out.hasErrors

\* --------------------------------------------------------------- SpecInterp
\* An Interpolator used directly: its global scope holds any definitions of
\* A and B (setGlobal stores any string), and resolve, setGlobal and
\* clearCache are called in any order, resolve with any local scope.
DefContents ==
    {<<"v">>, Ref(<<"A">>), Ref(<<"B">>), <<"x">> \o Ref(<<"B">>)}
GlobalScopes == UNION {[D -> DefContents] : D \in SUBSET VarNames}
LocalScopes ==
    {NoScope, [n \in {<<"A">>} |-> <<"l">>],
     [n \in {<<"A">>} |-> Ref(<<"B">>)]}
Inputs == {Ref(<<"A">>), Ref(<<"B">>), <<"x">> \o Ref(<<"A">>), Ref(EnvName)}

it_resolve(input, localScope) ==
    /\ ops < MaxOps
    /\ LET r == resolve(input, localScope, interp)
       IN /\ interp' = r.I
          /\ abc_out' = [kind |-> "resolve", input |-> input,
                         localScope |-> localScope,
                         fresh |-> interp.colorMap = EmptyMap,
                         result |-> [success |-> r.success,
                                     value |-> r.value, error |-> r.error]]
    /\ ops' = ops + 1
    /\ UNCHANGED <<build_file, decl, imports, config, threads, doc, environ,
                   orchVars, execVars, smVars, envVars, hist, run,
                   last_check>>

it_setGlobal(name, value) ==
    /\ ops < MaxOps
    /\ interp' = setGlobal(interp, name, value)
    /\ abc_out' = [kind |-> "setGlobal"]
    /\ ops' = ops + 1
    /\ UNCHANGED <<build_file, decl, imports, config, threads, doc, environ,
                   orchVars, execVars, smVars, envVars, hist, run,
                   last_check>>

it_clearCache ==
    /\ ops < MaxOps
    /\ interp' = [interp EXCEPT !.colorMap = EmptyMap, !.cache = EmptyMap]
    /\ abc_out' = [kind |-> "clearCache"]
    /\ ops' = ops + 1
    /\ UNCHANGED <<build_file, decl, imports, config, threads, doc, environ,
                   orchVars, execVars, smVars, envVars, hist, run,
                   last_check>>

InitInterp ==
    /\ build_file = <<"a">>
    /\ decl = [t \in Names |-> <<>>]
    /\ imports = [t \in Names |-> <<>>]
    /\ config = BuildConfig(TRUE, 1, FALSE, FALSE, UsualPathLen)
    /\ stage = "idle"
    /\ threads = EmptyMap
    /\ targets_ = <<>>
    /\ dependencies_ = EmptyMap
    /\ dependents_ = EmptyMap
    /\ build_order_ = <<>>
    /\ dirty_targets_ = {}
    /\ result_ = NewResult
    /\ cancelled_ = FALSE
    /\ mpc = "cond"
    /\ seq_idx = 1
    /\ seq_cur = ""
    /\ dep_count = EmptyMap
    /\ reverse_deps = EmptyMap
    /\ ready_queue = <<>>
    /\ pool_tasks = <<>>
    /\ workers = <<>>
    /\ built_count = 0
    /\ has_failure = FALSE
    /\ records_ = EmptyMap
    /\ sm_dirty_ = {}
    /\ toolchain_ = NoToolchain
    /\ saved_toolchain_ = NoToolchain
    /\ hash_cache_ = EmptyMap
    /\ timestamp_cache_ = EmptyMap
    /\ doc = NoDocument
    /\ environ \in Environments
    /\ \E g \in GlobalScopes : interp = Interpolator(g)
    /\ abc_out = NoOutput
    /\ file_epoch = 0
    /\ files = PriorFiles({}, {})
    /\ manifest = NoManifest
    /\ now = 1
    /\ NewHistory

NextInterp ==
    \/ \E input \in Inputs, localScope \in LocalScopes :
           it_resolve(input, localScope)
    \/ \E name \in VarNames, value \in DefContents : it_setGlobal(name, value)
    \/ it_clearCache

SpecInterp == InitInterp /\ [][NextInterp]_vars

\* The names a string refers to, as resolve scans it
RECURSIVE refs_from(_, _)
refs_from(s, pos) ==
    LET interpStart == find(s, "&{", pos)
        interpEnd == find(s, "}", interpStart)
    IN IF pos > Len(s) \/ interpStart = 0 \/ interpEnd = 0 THEN {}
       ELSE {SubSeq(s, interpStart + 1, interpEnd - 1)}
                \cup refs_from(s, interpEnd + 1)
Refs(s) == refs_from(s, 1)
IsEnv(name) == name # <<>> /\ name[1] = "ENV."
\* The definition a name stands for under the scopes, <<>> when undefined
DefinitionOf(name, localScope) ==
    IF IsEnv(name) THEN <<>>
    ELSE IF name \in DOMAIN localScope THEN <<localScope[name]>>
    ELSE IF name \in DOMAIN interp.globalScope
    THEN <<interp.globalScope[name]>>
    ELSE <<>>
RefsOf(name, localScope) ==
    IF DefinitionOf(name, localScope) = <<>> THEN {}
    ELSE Refs(DefinitionOf(name, localScope)[1])
RECURSIVE ReachableNames(_, _)
ReachableNames(S, localScope) ==
    LET T == S \cup UNION {RefsOf(n, localScope) : n \in S}
    IN IF T = S THEN S ELSE ReachableNames(T, localScope)
\* The definitions reachable from the names of `input` contain a cycle
HasDefinitionCycle(input, localScope) ==
    \E n \in ReachableNames(Refs(input), localScope) :
        n \in ReachableNames(RefsOf(n, localScope), localScope)
\* Every reachable name is defined (an ENV. name: set in the environment)
AllDefined(input, localScope) ==
    \A n \in ReachableNames(Refs(input), localScope) :
        IF IsEnv(n) THEN Tail(n) \in DOMAIN environ
        ELSE DefinitionOf(n, localScope) # <<>>

\* C19: resolve terminates with a result; the result is the circular
\* dependency error exactly when the definitions reachable from the names
\* of the input contain a cycle, and then the reported path is the
\* resolution path from a name of the input, each name referring to the
\* next, ending in the name that is entered again; when there is no cycle
\* and every reachable name is defined, the result is the value with no
\* placeholder left.
CycleDetection ==
    abc_out.kind = "resolve" =>
        LET r == abc_out.result
            p == r.error.detail
            circular == r.error.message = "Circular dependency detected"
            cycle == HasDefinitionCycle(abc_out.input, abc_out.localScope)
        IN /\ circular <=> cycle
           /\ circular =>
                  /\ Len(p) >= 2
                  /\ p[1] \in Refs(abc_out.input)
                  /\ \A i \in 1..(Len(p) - 1) :
                         p[i + 1] \in RefsOf(p[i], abc_out.localScope)
                  /\ \E i \in 1..(Len(p) - 1) : p[i] = p[Len(p)]
           /\ (~cycle /\ AllDefined(abc_out.input, abc_out.localScope))
                  => r.success /\ ~Contains(r.value, "&{")

\* C20: after scan_dependencies every name in a target's forward list and
\* every key of the reverse map is a known target (a dependency name that
\* matches no target is left out of the graph).
GraphNodesKnown ==
    stage \notin {"idle", "load", "scan"} =>
        /\ \A t \in DOMAIN dependencies_ :
               \A i \in DOMAIN dependencies_[t] :
                   dependencies_[t][i] \in TargetNameSet
        /\ DOMAIN dependents_ \subseteq TargetNameSet

\* The position of a target name in lexicographic order
NameRank == [n \in Names |-> IF n = "a" THEN 1 ELSE IF n = "b" THEN 2 ELSE 3]
\* Kahn's algorithm taking the lexicographically smallest target whose
\* dependencies are all placed
RECURSIVE LexKahn(_)
LexKahn(order) ==
    LET placed == SeqToSet(order)
        free == {t \in TargetNameSet \ placed :
                     SeqToSet(MapGet(dependencies_, t)) \subseteq placed}
    IN IF free = {} THEN order
       ELSE LexKahn(Append(order,
                CHOOSE t \in free : \A u \in free : NameRank[t] <= NameRank[u]))

\* C21: for a graph without a cycle whose dependencies all name targets,
\* the build order is the one Kahn's algorithm gives when it always takes
\* the lexicographically smallest target of in-degree 0 next (so that it
\* is a function of the targets and the graph).
LexicographicPlan ==
    (AfterDetect /\ ~HasForwardCycle /\ DepsKnown)
        => build_order_ = LexKahn(<<>>)

\* ----------------------------------------------------------------- SpecGate
\* build() with one thread in a fresh tree (no state file, nothing built)
\* on build files with and without an invalid section header, with no
\* target, and with a dependency cycle; every compile step and the final
\* save may fail.
GateFiles ==
    {<<>>, <<InvalidHeader>>, <<"a">>, <<"a", InvalidHeader>>,
     <<InvalidHeader, "a">>, <<"a", "b">>}
GateEdges == {<<>>, <<<<"b", "a">>>>, <<<<"a", "b">>, <<"b", "a">>>>}

InitGate ==
    /\ build_file \in GateFiles
    /\ \E edges \in GateEdges : decl = [t \in Names |-> DeclOf(edges, t)]
    /\ imports = [t \in Names |-> <<>>]
    /\ \E ff \in BOOLEAN :
           config = BuildConfig(ff, 1, FALSE, FALSE, UsualPathLen)
    /\ NewProcess
    /\ doc = NoDocument
    /\ environ = EmptyMap
    /\ files = PriorFiles({}, {})
    /\ manifest = NoManifest
    /\ now = 1
    /\ file_epoch = EpochSkew
    /\ NewHistory

NextGate ==
    \/ build
    \/ load_state
    \/ scan_dependencies
    \/ build_dependency_graph
    \/ detect_cycles
    \/ mark_dirty_targets
    \/ execute_builds
    \/ seq_next
    \/ seq_build
    \/ \E ok \in BOOLEAN : seq_built(ok)
    \/ save_state

SpecGate == InitGate /\ [][NextGate]_vars

\* C22: when build() has returned with a diagnostic recorded, success is
\* false; and when the diagnostic is one of parsing, of the target
\* extraction or of the cycle detection, no later stage has run: no
\* compile was started and no state file was written.
PipelineGating ==
    stage = "done" =>
        /\ result_.errors # <<>> => ~result_.success
        /\ (\/ Contains(result_.errors, "Invalid section header")
            \/ Contains(result_.errors, "No valid targets found in build file")
            \/ result_.has_cycle)
               => /\ \A t \in Names : hist.started[t] = 0
                  /\ ~manifest.exists

\* C23: over the calls of a StateManager, "a" is in the dirty set after
\* mark_dirty and after invalidate, is not in it after update_record and
\* after clear, and no other call changes that; so check_dirty reports
\* DEPENDENCY_DIRTY when "a" was marked last and its output and record
\* exist, and never reports it when update_record was the last of the four.
DirtyMarkLifecycle ==
    /\ [][/\ last_check'.kind \in {"mark_dirty", "invalidate"}
              => "a" \in sm_dirty_'
          /\ last_check'.kind \in {"update", "clear"} => "a" \notin sm_dirty_'
          /\ last_check'.kind \notin
                 {"mark_dirty", "invalidate", "update", "clear"}
              => ("a" \in sm_dirty_' <=> "a" \in sm_dirty_)]_vars
    /\ [](last_check.kind = "check" =>
              /\ ("a" \in sm_dirty_ /\ ~last_check.conds[1]
                    /\ ~last_check.conds[2])
                     => last_check.reason = "DEPENDENCY_DIRTY"
              /\ "a" \notin sm_dirty_
                     => last_check.reason # "DEPENDENCY_DIRTY")
\* C23 witness: check_dirty has reported DEPENDENCY_DIRTY for the marked
\* target, whose output and record exist.
DirtyMarkLifecycleWitness ==
    /\ last_check.kind = "check"
    /\ last_check.reason = "DEPENDENCY_DIRTY"
    /\ "a" \in sm_dirty_
    /\ "a" \in DOMAIN records_
    /\ fs_exists(OutPath("a"))

\* ------------------------------------------------------------- SpecRecords
\* Calls of one StateManager on the records of two targets: update_record,
\* invalidate, clear and load, after an earlier process that built none,
\* one or both of them.
RecordNames == {"a", "b"}

rc_update_record(name, flags) ==
    /\ ops < MaxOps
    /\ update_record(name, OutPath(name), SourcesOf(name), <<>>, <<>>,
                     flags, 0)
    /\ ops' = ops + 1
    /\ last_check' = [Observed("update") EXCEPT !.name = name]
    /\ UNCHANGED <<inVars, orchVars, execVars, envVars, hist, run>>

rc_invalidate(name) ==
    /\ ops < MaxOps
    /\ invalidate(name)
    /\ ops' = ops + 1
    /\ last_check' = [Observed("invalidate") EXCEPT !.name = name]
    /\ UNCHANGED <<inVars, orchVars, execVars, toolchain_, saved_toolchain_,
                   hash_cache_, timestamp_cache_, envVars, hist, run>>

rc_clear ==
    /\ ops < MaxOps
    /\ clear
    /\ ops' = ops + 1
    /\ last_check' = Observed("clear")
    /\ UNCHANGED <<inVars, orchVars, execVars, toolchain_, saved_toolchain_,
                   envVars, hist, run>>

rc_load(can_open) ==
    /\ ops < MaxOps
    /\ load_from(can_open)
    /\ ops' = ops + 1
    /\ last_check' =
           [Observed("load") EXCEPT
               !.reason = IF load_result(can_open) THEN "true" ELSE "false",
               !.name = IF manifest.exists /\ ~can_open THEN "unreadable"
                        ELSE ""]
    /\ UNCHANGED <<inVars, orchVars, execVars, envVars, hist, run>>

\* The state file is overwritten with a text that lacks the version key.
rc_corrupt ==
    /\ ops < MaxOps
    /\ manifest.exists
    /\ manifest' = [manifest EXCEPT !.version = ""]
    /\ ops' = ops + 1
    /\ last_check' = Observed("other")
    /\ UNCHANGED <<inVars, orchVars, execVars, smVars, files, now,
                   file_epoch, hist, run>>

rc_edit(name, content) ==
    /\ ops < MaxOps
    /\ files' = [files EXCEPT ![SrcPath(name)] =
                     [exists |-> TRUE, content |-> content, mtime |-> now]]
    /\ ops' = ops + 1
    /\ last_check' = Observed("other")
    /\ UNCHANGED <<inVars, orchVars, execVars, smVars, manifest, now,
                   file_epoch, hist, run>>

InitRecords ==
    /\ build_file = <<"a", "b">>
    /\ decl = [t \in Names |-> <<>>]
    /\ imports = [t \in Names |-> <<>>]
    /\ config = BuildConfig(TRUE, 1, FALSE, FALSE, UsualPathLen)
    /\ NewProcess
    /\ doc = NoDocument
    /\ environ = EmptyMap
    /\ file_epoch = EpochSkew
    /\ \/ /\ files = PriorFiles({}, {})
          /\ manifest = NoManifest
       \/ \E built \in {{"a"}, {"a", "b"}} :
              /\ files = PriorFiles(built, {})
              /\ manifest = PriorManifest(built, file_epoch)
    /\ now = 1
    /\ NewHistory

NextRecords ==
    \/ \E name \in RecordNames, flags \in FlagLists :
           rc_update_record(name, flags)
    \/ \E name \in RecordNames : rc_invalidate(name)
    \/ rc_clear
    \/ \E can_open \in BOOLEAN : rc_load(can_open)
    \/ rc_corrupt
    \/ \E name \in RecordNames, content \in Contents : rc_edit(name, content)

SpecRecords == InitRecords /\ [][NextRecords]_vars

\* C24: invalidate(name) removes the record of name and no other record,
\* clear() leaves no record (target_count is 0 and has_state is false for
\* every name), and update_record(name) leaves a record of name and changes
\* the record of no other name.
RecordScope ==
    [][\A n \in RecordNames :
         /\ (last_check'.kind = "invalidate" /\ last_check'.name = n)
              => /\ DOMAIN records_' = DOMAIN records_ \ {n}
                 /\ \A m \in DOMAIN records_' : records_'[m] = records_[m]
         /\ last_check'.kind = "clear"
              => /\ target_count' = 0
                 /\ ~has_state'
                 /\ get_record(n)' = <<>>
         /\ (last_check'.kind = "update" /\ last_check'.name = n)
              => /\ get_record(n)' # <<>>
                 /\ DOMAIN records_' = DOMAIN records_ \cup {n}
                 /\ \A m \in DOMAIN records_ \ {n} :
                        records_'[m] = records_[m]]_vars
\* C24 witness: invalidate("a") has removed the record of a while the
\* record of b is still there.
RecordScopeWitness ==
    /\ last_check.kind = "invalidate"
    /\ last_check.name = "a"
    /\ get_record("a") = <<>>
    /\ get_record("b") # <<>>

\* C25: set_toolchain(t) makes get_toolchain return t; a second
\* set_toolchain(t) right after the first changes nothing; on a manager
\* whose saved toolchain is empty it leaves toolchain_changed false, and a
\* check_dirty that follows does not report TOOLCHAIN_CHANGED.
ToolchainSet ==
    [][/\ last_check'.kind = "set_toolchain"
          => /\ get_toolchain' = ToolchainInfo(last_check'.name)
             /\ saved_toolchain_.compiler_version = ""
                  => ~toolchain_changed'
             /\ (last_check.kind = "set_toolchain"
                   /\ last_check.name = last_check'.name)
                  => UNCHANGED smVars
       /\ (last_check.kind = "set_toolchain" /\ ~toolchain_changed
             /\ last_check'.kind = "check")
          => last_check'.reason # "TOOLCHAIN_CHANGED"]_vars
\* C25 witness: set_toolchain on a manager without a saved toolchain has
\* initialised the saved toolchain with a compiler no manifest names.
ToolchainSetWitness ==
    /\ last_check.kind = "set_toolchain"
    /\ last_check.name = "ariac2"
    /\ saved_toolchain_ = ToolchainInfo("ariac2")
    /\ get_toolchain = ToolchainInfo("ariac2")

\* C26: load() of an absent state file returns true and leaves no record;
\* a load() that returns false (the file cannot be opened, or its text is
\* malformed) leaves no record either.
LoadOutcomes ==
    [][last_check'.kind = "load"
         => /\ ~manifest.exists
                => last_check'.reason = "true" /\ target_count' = 0
            /\ last_check'.reason = "false" => target_count' = 0]_vars

\* C27: when the save of the state at the end of build() fails, the build
\* result tells the caller (an error is added or success is false), and
\* the records, the outputs and the counts of the run stay as they were.
SaveFailureReported ==
    [][(stage = "save" /\ stage' = "done" /\ ~run'.saved)
         => /\ \/ Len(result_'.errors) > Len(result_.errors)
               \/ ~result_'.success
            /\ records_' = records_
            /\ files' = files
            /\ result_'.built_targets = result_.built_targets]_vars

\* ------------------------------------------------------------------- clean
\* The name of the StateManager's file in the state directory, and the name
\* of the file clean() removes from it.
STATE_FILE_NAME == ".aria_build_state"
CleanedFileName == "state.json"

\* fs::exists(config_.output_dir): the directory is made by the first build
output_dir_exists == \E t \in Names : fs_exists(OutPath(t))
\* fs::remove_all(config_.output_dir): every output is gone
remove_all_outputs ==
    [p \in Paths |->
        IF \E t \in Names : p = OutPath(t)
        THEN [files[p] EXCEPT !.exists = FALSE]
        ELSE files[p]]

\* clean(): `nested` says that state_dir lies inside output_dir, `removed`
\* that fs::remove_all succeeds. The error code of the fs::remove of the
\* state file is not looked at.
clean_effects(nested, removed) ==
    IF output_dir_exists /\ ~removed
    THEN UNCHANGED <<files, manifest, smVars>>
    ELSE /\ files' = IF output_dir_exists THEN remove_all_outputs ELSE files
         /\ clear
         /\ manifest' =
                IF \/ output_dir_exists /\ nested
                   \/ CleanedFileName = STATE_FILE_NAME
                THEN NoManifest ELSE manifest
         /\ UNCHANGED <<toolchain_, saved_toolchain_>>
clean(nested, removed) ==
    /\ clean_effects(nested, removed)
    /\ result_' = IF output_dir_exists /\ ~removed
                  THEN add_error(result_, "Failed to remove output directory")
                  ELSE result_
\* clean()'s return value
clean_result(removed) == ~output_dir_exists \/ removed

\* --------------------------------------------------------------- SpecClean
\* clean() among the calls of the StateManager, in a tree an earlier build
\* of a, or of a and b, left; with the state directory inside the output
\* directory or beside it (the default: .aria_make and .aria_make/build).
cl_clean(nested, removed) ==
    /\ ops < MaxOps
    /\ clean(nested, removed)
    /\ ops' = ops + 1
    /\ last_check' =
           [Observed("clean") EXCEPT
               !.reason = IF clean_result(removed) THEN "true" ELSE "false",
               !.name = IF nested THEN "nested" ELSE "beside"]
    /\ UNCHANGED <<inVars, stage, targets_, dependencies_, dependents_,
                   build_order_, dirty_targets_, cancelled_, execVars, now,
                   file_epoch, hist, run>>

NextClean ==
    \/ \E nested \in BOOLEAN, removed \in BOOLEAN : cl_clean(nested, removed)
    \/ \E can_open \in BOOLEAN : rc_load(can_open)
    \/ \E name \in RecordNames, flags \in FlagLists :
           rc_update_record(name, flags)
    \/ sm_save

SpecClean == InitRecords /\ [][NextClean]_vars

\* C28: after a clean() that returns true the state file does not exist,
\* and a load() right after it leaves no record.
CleanRemovesState ==
    [][/\ (last_check'.kind = "clean" /\ last_check'.reason = "true")
            => ~manifest'.exists
       /\ (last_check.kind = "clean" /\ last_check.reason = "true"
             /\ last_check'.kind = "load")
            => target_count' = 0]_vars

\* ---------------------------------------------------------------- SpecHash
\* hash_file, invalidate_hash_cache and clear_hash_cache of one
\* StateManager on the sources of two targets, which are edited (also
\* twice within one second of the file clock) while the clock advances.
\* hash_file changes the caches only and is not counted. last_check keeps
\* the digest returned (flags) and whether the call follows an invalidation
\* that dropped another digest for the path (after_update); the
\* invalidations keep the digest they dropped for SrcPath("a").
hc_hash_file(name) ==
    /\ LET r == hash_file(Cache(hash_cache_, timestamp_cache_), SrcPath(name))
       IN /\ hash_cache_' = r.c.h
          /\ timestamp_cache_' = r.c.t
          /\ last_check' =
                 [Observed("hash_file") EXCEPT
                     !.name = name, !.flags = r.val,
                     !.after_update =
                         /\ name = "a"
                         /\ last_check.kind \in {"invalidate_hash_cache",
                                                 "clear_hash_cache"}
                         /\ last_check.flags \notin {<<>>, r.val}]
    /\ UNCHANGED <<inVars, orchVars, execVars, records_, sm_dirty_,
                   toolchain_, saved_toolchain_, envVars, hist, run, ops>>

hc_invalidate_hash_cache(name) ==
    /\ ops < MaxOps
    /\ LET c == invalidate_hash_cache(Cache(hash_cache_, timestamp_cache_),
                                      SrcPath(name))
       IN /\ hash_cache_' = c.h
          /\ timestamp_cache_' = c.t
    /\ ops' = ops + 1
    /\ last_check' =
           [Observed("invalidate_hash_cache") EXCEPT
               !.name = name,
               !.flags = IF name = "a" THEN MapGet(hash_cache_, SrcPath("a"))
                         ELSE <<>>]
    /\ UNCHANGED <<inVars, orchVars, execVars, records_, sm_dirty_,
                   toolchain_, saved_toolchain_, envVars, hist, run>>

hc_clear_hash_cache ==
    /\ ops < MaxOps
    /\ LET c == clear_hash_cache(Cache(hash_cache_, timestamp_cache_))
       IN /\ hash_cache_' = c.h
          /\ timestamp_cache_' = c.t
    /\ ops' = ops + 1
    /\ last_check' =
           [Observed("clear_hash_cache") EXCEPT
               !.flags = MapGet(hash_cache_, SrcPath("a"))]
    /\ UNCHANGED <<inVars, orchVars, execVars, records_, sm_dirty_,
                   toolchain_, saved_toolchain_, envVars, hist, run>>

NextHash ==
    \/ \E name \in RecordNames : hc_hash_file(name)
    \/ \E name \in RecordNames : hc_invalidate_hash_cache(name)
    \/ hc_clear_hash_cache
    \/ \E name \in RecordNames, content \in Contents : rc_edit(name, content)
    \/ tick

SpecHash == InitRecords /\ [][NextHash]_vars

\* The cache holds a digest for path whose cached mtime is the file's
CacheHit(path) ==
    /\ path \in DOMAIN hash_cache_
    /\ path \in DOMAIN timestamp_cache_
    /\ timestamp_cache_[path] = get_file_timestamp(path)

\* C29: hash_file(path) returns the cached digest, leaving the caches as
\* they are, exactly when the cached mtime equals the file's mtime;
\* otherwise it returns the digest of the current content and caches it
\* with the current mtime. Right after invalidate_hash_cache(path) or
\* clear_hash_cache() it returns the digest of the current content.
HashCacheContract ==
    [][\A n \in RecordNames :
         (last_check'.kind = "hash_file" /\ last_check'.name = n)
           => /\ IF CacheHit(SrcPath(n))
                 THEN /\ last_check'.flags = hash_cache_[SrcPath(n)]
                      /\ UNCHANGED <<hash_cache_, timestamp_cache_>>
                 ELSE /\ last_check'.flags = sha256_file(SrcPath(n))
                      /\ hash_cache_'[SrcPath(n)] = sha256_file(SrcPath(n))
                      /\ timestamp_cache_'[SrcPath(n)] =
                             get_file_timestamp(SrcPath(n))
              /\ (\/ last_check.kind = "clear_hash_cache"
                  \/ /\ last_check.kind = "invalidate_hash_cache"
                     /\ last_check.name = n)
                   => last_check'.flags = sha256_file(SrcPath(n))]_vars
\* C29 witness: hash_file right after an invalidation that dropped the
\* digest of the source's earlier content has returned the digest of the
\* current content; the source was edited twice within the first second,
\* so the dropped entry had the mtime the file has now.
HashCacheContractWitness ==
    /\ last_check.kind = "hash_file"
    /\ last_check.name = "a"
    /\ last_check.after_update
    /\ last_check.flags = sha256_file(SrcPath("a"))
    /\ files[SrcPath("a")].content = "v1"
    /\ files[SrcPath("a")].mtime = now
    /\ now = 1

\* ------------------------------------------------------------- SpecThreads
\* Threads on one StateManager, as in test_state_manager_concurrent_*:
\* each writer calls update_record once for its own name, each reader calls
\* get_record, target_count and check_dirty again and again. A call is a
\* sequence of steps: the lock on mutex_ is taken (std::unique_lock by
\* update_record, std::shared_lock by the readers), the body runs, the
\* lock is released at the return. records_[name] = std::move(record) is
\* two steps: operator[] inserts a default-constructed record when the
\* name is absent, then the record is move-assigned.
Writers == {"w1", "w2"}
Readers == {"r1", "r2"}
WriterName == [w \in Writers |-> IF w = "w1" THEN "a" ELSE "b"]
ReadCalls == {"get_record", "target_count", "check_dirty"}

\* ArtifactRecord(): the default-constructed record
ArtifactRecord ==
    [output_path |-> <<>>, source_hash |-> <<>>, command_hash |-> ZeroHash,
     direct_dependencies |-> <<>>, implicit_dependencies |-> <<>>,
     source_timestamp |-> 0, build_timestamp |-> 0, build_duration_ms |-> 0]

\* A thread outside a call, having seen nothing yet
IdleThread == [pc |-> "idle", call |-> "", name |-> "", count |-> 0,
               record |-> <<>>, reason |-> ""]

\* mutex_ is held exclusively / shared by some thread other than t
held_unique(t) ==
    \E u \in DOMAIN threads \ {t} :
        threads[u].pc \in {"unique", "inserted", "assigned"}
held_shared(t) ==
    \E u \in DOMAIN threads \ {t} : threads[u].pc \in {"shared", "read"}
\* std::unique_lock / std::shared_lock on mutex_ can be taken by t
can_lock_unique(t) == ~held_unique(t) /\ ~held_shared(t)
can_lock_always(t) == TRUE
can_lock_shared(t) == ~held_unique(t)

th_spawn ==
    /\ threads = EmptyMap
    /\ threads' = [t \in Writers \cup Readers |-> IdleThread]
    /\ UNCHANGED <<build_file, decl, imports, config, abcVars, orchVars,
                   execVars, smVars, envVars, histVars>>

\* update_record, line 227: the unique lock
th_lock_unique(t) ==
    /\ t \in DOMAIN threads /\ t \in Writers
    /\ threads[t].pc = "idle"
    /\ can_lock_unique(t)
    /\ threads' = [threads EXCEPT ![t].pc = "unique",
                                  ![t].call = "update_record",
                                  ![t].name = WriterName[t]]
    /\ UNCHANGED <<build_file, decl, imports, config, abcVars, orchVars,
                   execVars, smVars, envVars, histVars>>

\* line 258, operator[]: the slot of the name exists from here on
th_insert(t) ==
    /\ t \in DOMAIN threads
    /\ threads[t].pc = "unique"
    /\ records_' = IF threads[t].name \in DOMAIN records_ THEN records_
                   ELSE MapPut(records_, threads[t].name, ArtifactRecord)
    /\ threads' = [threads EXCEPT ![t].pc = "inserted"]
    /\ UNCHANGED <<build_file, decl, imports, config, abcVars, orchVars,
                   execVars, sm_dirty_, toolchain_, saved_toolchain_,
                   hash_cache_, timestamp_cache_, envVars, histVars>>

\* lines 229-259: the record is computed and move-assigned, the dirty mark
\* erased
th_assign(t) ==
    /\ t \in DOMAIN threads
    /\ threads[t].pc = "inserted"
    /\ update_record(threads[t].name, OutPath(threads[t].name),
                     SourcesOf(threads[t].name), <<>>, <<>>, <<>>, 0)
    /\ threads' = [threads EXCEPT ![t].pc = "assigned"]
    /\ UNCHANGED <<build_file, decl, imports, config, abcVars, orchVars,
                   execVars, envVars, histVars>>

\* the return of update_record releases the lock; the writer is done
th_unlock_unique(t) ==
    /\ t \in DOMAIN threads
    /\ threads[t].pc = "assigned"
    /\ threads' = [threads EXCEPT ![t].pc = "done"]
    /\ UNCHANGED <<build_file, decl, imports, config, abcVars, orchVars,
                   execVars, smVars, envVars, histVars>>

\* get_record / target_count / check_dirty: the shared lock
th_lock_shared(t, call, name) ==
    /\ t \in DOMAIN threads /\ t \in Readers
    /\ threads[t].pc = "idle"
    /\ can_lock_shared(t)
    /\ threads' = [threads EXCEPT ![t].pc = "shared", ![t].call = call,
                                  ![t].name = name]
    /\ UNCHANGED <<build_file, decl, imports, config, abcVars, orchVars,
                   execVars, smVars, envVars, histVars>>

\* the body of the reading call; check_dirty refreshes the hash cache
th_read(t) ==
    /\ t \in DOMAIN threads
    /\ threads[t].pc = "shared"
    /\ LET r == check_dirty(CurrentSM, Cache(hash_cache_, timestamp_cache_),
                            threads[t].name, OutPath(threads[t].name),
                            SourcesOf(threads[t].name), <<>>)
       IN IF threads[t].call = "check_dirty"
          THEN /\ hash_cache_' = r.c.h
               /\ timestamp_cache_' = r.c.t
               /\ threads' = [threads EXCEPT ![t].pc = "read",
                                             ![t].reason = r.reason]
          ELSE /\ UNCHANGED <<hash_cache_, timestamp_cache_>>
               /\ threads' =
                      [threads EXCEPT
                          ![t].pc = "read",
                          ![t].count =
                              IF threads[t].call = "target_count"
                              THEN target_count ELSE @,
                          ![t].record =
                              IF threads[t].call = "get_record"
                              THEN get_record(threads[t].name) ELSE @]
    /\ UNCHANGED <<build_file, decl, imports, config, abcVars, orchVars,
                   execVars, records_, sm_dirty_, toolchain_,
                   saved_toolchain_, envVars, histVars>>

th_unlock_shared(t) ==
    /\ t \in DOMAIN threads
    /\ threads[t].pc = "read"
    /\ threads' = [threads EXCEPT ![t].pc = "idle"]
    /\ UNCHANGED <<build_file, decl, imports, config, abcVars, orchVars,
                   execVars, smVars, envVars, histVars>>

NextThreads ==
    \/ th_spawn
    \/ \E t \in Writers : th_lock_unique(t)
    \/ \E t \in Writers : th_insert(t)
    \/ \E t \in Writers : th_assign(t)
    \/ \E t \in Writers : th_unlock_unique(t)
    \/ \E t \in Readers, call \in ReadCalls, name \in RecordNames :
           th_lock_shared(t, call, name)
    \/ \E t \in Readers : th_read(t)
    \/ \E t \in Readers : th_unlock_shared(t)

SpecThreads == InitRecords /\ [][NextThreads]_vars

\* The names whose update_record has returned
Written == {WriterName[w] : w \in {u \in Writers \cap DOMAIN threads :
                                       threads[u].pc = "done"}}

\* C30: with update_record for distinct names running beside readers, the
\* record of every finished update is there (so that target_count is the
\* number of names written once every writer is done), a record a reader
\* got from get_record is complete, check_dirty answers MISSING_RECORD or
\* from a complete record, and target_count never decreases, neither in
\* the manager nor in what one reader sees from call to call.
ThreadSafe ==
    /\ [](\A n \in Written : get_record(n) # <<>> /\ is_valid(get_record(n)[1]))
    /\ []((threads # EmptyMap /\ \A w \in Writers : threads[w].pc = "done")
             => target_count = Cardinality(Writers))
    /\ [](\A r \in Readers \cap DOMAIN threads :
             threads[r].record # <<>> => is_valid(threads[r].record[1]))
    /\ [][/\ target_count' >= target_count
          /\ threads # EmptyMap
               => \A r \in Readers : threads'[r].count >= threads[r].count]_vars
\* C30 witness: a reader holds the complete record of a, read while the
\* writer of b had not finished, and that writer is now between inserting
\* the slot of b and assigning its record.
ThreadSafeWitness ==
    /\ threads # EmptyMap
    /\ threads["r1"].record # <<>>
    /\ threads["r1"].name = "a"
    /\ threads["w2"].pc = "inserted"
    /\ get_record("b") = <<ArtifactRecord>>

\* The record update_record stores for t from the tree as it is
ExpectedRecord(t) ==
    new_record(Cache(EmptyMap, EmptyMap), OutPath(t), SourcesOf(t), <<>>,
               <<>>, AllFlags(t), 0).rec

\* C31: when execute_builds has returned without a failed build and
\* without a cancellation, with one thread (the sequential path) as with
\* two (the parallel path) the targets built are exactly the dirty set,
\* each has the record update_record computes from its source and flags,
\* and the counts are: built the size of the dirty set, failed 0, skipped
\* the other targets. Both paths so give the same targets, records and
\* counts on the same input.
SeqParEquivalent ==
    (stage \in {"save", "done"} /\ run.n = 1 /\ ~cancelled_ /\ ~SomeFailed
       /\ ~result_.has_cycle /\ result_.errors = <<>>)
      => /\ {t \in Names : hist.outcome[t] = "ok"} = dirty_targets_
         /\ \A t \in dirty_targets_ :
                /\ t \in DOMAIN records_
                /\ records_[t] = ExpectedRecord(t)
         /\ \A t \in Names \ dirty_targets_ : hist.started[t] = 0
         /\ result_.built_targets = Cardinality(dirty_targets_)
         /\ result_.failed_targets = 0
         /\ result_.skipped_targets =
                result_.total_targets - Cardinality(dirty_targets_)

\* The targets build_single_target was entered for, in the run
StartedTargets == {t \in Names : hist.started[t] > 0}

\* C33: when execute_builds has returned, built_targets + failed_targets
\* is the number of targets whose build was started: no increment of a
\* worker is lost.
CountersExact ==
    (stage \in {"save", "done"} /\ run.n = 1)
      => result_.built_targets + result_.failed_targets =
             Cardinality(StartedTargets)

\* =================================================================== Lexer
\* The source text of the lexer is the sequence of its characters; the
\* characters used are the backtick, "&", "{", "}" and the letter "x".
\* `current` is the index of the next character, from 1.
Backtick == "BACKTICK"
Token(type, lexeme) == [type |-> type, lexeme |-> lexeme]
isAtEnd(source, current) == current > Len(source)
peek(source, current) ==
    IF isAtEnd(source, current) THEN "" ELSE source[current]
peekNext(source, current) ==
    IF current + 1 > Len(source) THEN "" ELSE source[current + 1]
isAlpha(c) == c = "x"

\* What a scan returns: the token, the lexer's position after it, and the
\* message errorToken recorded ("" for none)
Scanned(token, current, error) ==
    [token |-> token, current |-> current, error |-> error]
errorToken(message, current) ==
    Scanned(Token("INVALID", <<message>>), current, message)

\* Lexer::scanString, entered after the opening backtick. The lexer's
\* state is never INTERPOLATION, so the branch of line 205 is not taken.
RECURSIVE scanString(_, _, _)
scanString(source, stringStart, current) ==
    IF isAtEnd(source, current)
    THEN errorToken("Unterminated string", current)
    ELSE IF peek(source, current) = Backtick
    THEN Scanned(Token("STRING_LITERAL",
                       SubSeq(source, stringStart, current - 1)),
                 current + 1, "")
    ELSE IF peek(source, current) = "&" /\ peekNext(source, current) = "{"
    THEN IF current > stringStart
         THEN Scanned(Token("STRING_LITERAL",
                            SubSeq(source, stringStart, current - 1)),
                      current, "")
         ELSE Scanned(Token("INTERP_START", <<"&", "{">>), current + 2, "")
    ELSE scanString(source, stringStart, current + 1)

\* Lexer::scanIdentifier: the end of the run of letters
RECURSIVE scanIdentifier(_, _, _)
scanIdentifier(source, start, current) ==
    IF isAlpha(peek(source, current))
    THEN scanIdentifier(source, start, current + 1)
    ELSE Scanned(Token("IDENTIFIER", SubSeq(source, start, current - 1)),
                 current, "")

\* Lexer::scanToken
scanToken(source, current) ==
    IF isAtEnd(source, current)
    THEN Scanned(Token("END_OF_FILE", <<>>), current, "")
    ELSE LET c == source[current]
         IN IF c = "{"
            THEN Scanned(Token("LEFT_BRACE", <<c>>), current + 1, "")
            ELSE IF c = "}"
            THEN Scanned(Token("RIGHT_BRACE", <<c>>), current + 1, "")
            ELSE IF c = Backtick
            THEN scanString(source, current + 1, current + 1)
            ELSE IF isAlpha(c)
            THEN scanIdentifier(source, current, current + 1)
            ELSE errorToken("Unexpected character", current + 1)

\* The content of a token's lexeme as the Parser's strings are modelled:
\* the characters "&", "{" in a row are the one piece "&{".
RECURSIVE ToPieces(_)
ToPieces(chars) ==
    IF chars = <<>> THEN <<>>
    ELSE IF Len(chars) >= 2 /\ chars[1] = "&" /\ chars[2] = "{"
    THEN <<"&{">> \o ToPieces(SubSeq(chars, 3, Len(chars)))
    ELSE <<chars[1]>> \o ToPieces(Tail(chars))

\* ----------------------------------------------------------------- SpecLex
\* A Lexer on a source that opens with a backtick, followed by up to six
\* characters and closed by a backtick or not; the Parser then parses a
\* value from the tokens. doc is the source; abc_out holds the lexer's
\* position, the tokens returned so far, its errors, and the node.
BodyLengths == 0..6
BodyChars == {"x", "&", "{", "}"}
Bodies == UNION {[1..n -> BodyChars] : n \in BodyLengths}
Sources ==
    {<<Backtick>> \o body \o close : body \in Bodies, close \in {<<>>, <<Backtick>>}}
NewLexer == [kind |-> "lex", current |-> 1, tokens |-> <<>>,
             errors |-> <<>>, node |-> <<>>]
LexDone ==
    /\ abc_out.kind = "lex"
    /\ abc_out.tokens # <<>>
    /\ abc_out.tokens[Len(abc_out.tokens)].type = "END_OF_FILE"

lx_start ==
    /\ abc_out.kind = "none"
    /\ abc_out' = NewLexer
    /\ UNCHANGED <<build_file, decl, imports, config, threads, doc, environ,
                   interp, orchVars, execVars, smVars, envVars, histVars>>

\* Lexer::nextToken, until the end of the file has been returned
lx_nextToken ==
    /\ abc_out.kind = "lex"
    /\ ~LexDone
    /\ LET s == scanToken(doc, abc_out.current)
       IN abc_out' = [abc_out EXCEPT
                         !.current = s.current,
                         !.tokens = Append(@, s.token),
                         !.errors = IF s.error = "" THEN @
                                    ELSE Append(@, s.error)]
    /\ UNCHANGED <<build_file, decl, imports, config, threads, doc, environ,
                   interp, orchVars, execVars, smVars, envVars, histVars>>

\* Parser::parseValue on the first token: parseString for a string token
lx_parseValue ==
    /\ LexDone
    /\ abc_out.node = <<>>
    /\ abc_out' =
           [abc_out EXCEPT
               !.node =
                   IF abc_out.tokens[1].type = "STRING_LITERAL"
                   THEN <<parseString(ToPieces(abc_out.tokens[1].lexeme))>>
                   ELSE <<[kind |-> "Error", value |-> <<>>,
                           segments |-> <<>>]>>]
    /\ UNCHANGED <<build_file, decl, imports, config, threads, doc, environ,
                   interp, orchVars, execVars, smVars, envVars, histVars>>

InitLex ==
    /\ build_file = <<"a">>
    /\ decl = [t \in Names |-> <<>>]
    /\ imports = [t \in Names |-> <<>>]
    /\ config = BuildConfig(TRUE, 1, FALSE, FALSE, UsualPathLen)
    /\ NewProcess
    /\ doc \in Sources
    /\ environ = EmptyMap
    /\ file_epoch = 0
    /\ files = PriorFiles({}, {})
    /\ manifest = NoManifest
    /\ now = 1
    /\ NewHistory

NextLex ==
    \/ lx_start
    \/ lx_nextToken
    \/ lx_parseValue

SpecLex == InitLex /\ [][NextLex]_vars

\* The text between the backticks of a closed source (up to the second
\* backtick)
Body == SubSeq(doc, 2, find(doc, Backtick, 2) - 1)

\* C32: a source that is one backtick string is lexed as one string token
\* with the text between the backticks as content, followed by the end of
\* the file, without an error, whether or not the text has "&{";
\* the parser makes of it a literal string when it has no "&{" and else
\* the composite string of its segments; a source whose backtick is not
\* closed gives a lexical error.
BacktickString ==
    LexDone =>
        IF find(doc, Backtick, 2) = Len(doc)
        THEN /\ abc_out.tokens = <<Token("STRING_LITERAL", Body),
                                   Token("END_OF_FILE", <<>>)>>
             /\ abc_out.errors = <<>>
             /\ abc_out.node # <<>>
                  => abc_out.node[1] = parseString(ToPieces(Body))
        ELSE abc_out.errors # <<>>

\* ====================================================== scheduler liveness
\* The parallel executor under a fair scheduler: the thread that runs build()
\* (and with it the loop of lines 1055-1075 and wait_all) keeps taking steps,
\* and so does every worker thread of the pool that has something to do.
\* cancel() is called from outside and is under no obligation to happen.
SchedEdges ==
    {<<<<"b", "a">>, <<"c", "a">>>>, <<<<"b", "a">>, <<"c", "b">>>>,
     <<<<"c", "a">>, <<"c", "b">>>>}

InitSched ==
    /\ build_file = <<"a", "b", "c">>
    /\ \E edges \in SchedEdges : decl = [t \in Names |-> DeclOf(edges, t)]
    /\ imports = [t \in Names |-> <<>>]
    /\ \E ff \in BOOLEAN :
           config = BuildConfig(ff, 2, FALSE, FALSE, UsualPathLen)
    /\ NewProcess
    /\ doc = NoDocument
    /\ environ = EmptyMap
    /\ \E stale \in ExecStale : files = PriorFiles(Names, stale)
    /\ manifest = PriorManifest(Names, EpochSkew)
    /\ now = 1
    /\ file_epoch = EpochSkew
    /\ NewHistory

\* The steps of the thread that called build().
MainThread ==
    \/ build
    \/ load_state
    \/ scan_dependencies
    \/ build_dependency_graph
    \/ detect_cycles
    \/ mark_dirty_targets
    \/ execute_builds
    \/ main_loop_condition
    \/ main_loop_dispatch
    \/ pool_wait_all
    \/ save_state

\* The steps of worker thread w of the pool (ThreadPool::worker_loop running
\* build_task).
WorkerThread(w) ==
    /\ w \in DOMAIN workers
    /\ \/ worker_take(w)
       \/ build_task_guard(w)
       \/ build_task_start(w)
       \/ \E ok \in BOOLEAN : build_single_target(w, ok)
       \/ count_target(w)
       \/ build_task_post(w)

NextSched ==
    \/ MainThread
    \/ \E w \in DOMAIN workers : WorkerThread(w)
    \/ cancel

SpecSched ==
    /\ InitSched
    /\ [][NextSched]_vars
    /\ WF_vars(MainThread)
    /\ \A w \in DOMAIN ThreadPool(2) : WF_vars(WorkerThread(w))

\* execute_builds_parallel has returned.
ParallelReturned == stage \in {"save", "done"}
\* Every target of the dirty set was built once, with success.
DirtyBuiltOnce ==
    \A t \in dirty_targets_ : hist.started[t] = 1 /\ hist.outcome[t] = "ok"

\* C34: under a fair scheduler the parallel executor returns in every run,
\* with failures or a cancellation under either failure policy too; and in
\* a run where no build fails and nothing is cancelled it returns with every
\* target of the dirty set built exactly once.
SchedulerLive ==
    /\ <>ParallelReturned
    /\ <>(cancelled_ \/ SomeFailed \/ (ParallelReturned /\ DirtyBuiltOnce))

\* C34 witness: a parallel run of three stale targets with a dependency
\* between them has returned with all three built, none failed, not cancelled.
SchedulerLiveWitness ==
    /\ stage = "done"
    /\ config.num_threads = 2
    /\ dirty_targets_ = Names
    /\ decl["b"] # <<>>
    /\ ~cancelled_ /\ ~SomeFailed
    /\ DirtyBuiltOnce

\* ================================================== calls on one orchestrator
\* build(), check() and rebuild() called one after the other on the same
\* BuildOrchestrator (as a long-lived tool does): the members keep what the
\* earlier call left. The build file has two targets, the configuration
\* passed to the constructor asks for a real, incremental, sequential build,
\* and an earlier process left a tree with b's source edited, or nothing.
\* last_check.kind names the call in progress and last_check.name the call
\* before it; run.first is the result the call before returned.
CallFile == <<"a", "b">>
CallEdges == {<<>>, <<<<"b", "a">>>>}
CallStale == {{}, {"b"}}
Configured == BuildConfig(FALSE, 1, FALSE, FALSE, UsualPathLen)

InitCalls ==
    /\ build_file = CallFile
    /\ \E edges \in CallEdges : decl = [t \in Names |-> DeclOf(edges, t)]
    /\ imports = [t \in Names |-> <<>>]
    /\ config = Configured
    /\ NewProcess
    /\ doc = NoDocument
    /\ environ = EmptyMap
    /\ \E stale \in CallStale :
           files = PriorFiles(SeqToSet(CallFile), stale)
    /\ manifest = PriorManifest(SeqToSet(CallFile), EpochSkew)
    /\ now = 1
    /\ file_epoch = EpochSkew
    /\ NewHistory

\* The caller's note of the call it makes.
Calling(kind) == [Observed(kind) EXCEPT !.name = last_check.kind]

\* build()
call_build ==
    /\ build_entry
    /\ last_check' = Calling("build")
    /\ UNCHANGED <<inVars, smVars, envVars, run, ops>>

\* check(), lines 313-316: config_.dry_run = true; return build();
call_check ==
    /\ config' = [config EXCEPT !.dry_run = TRUE]
    /\ build_entry
    /\ last_check' = Calling("check")
    /\ UNCHANGED <<build_file, decl, imports, abcVars, threads, smVars,
                   envVars, run, ops>>

\* rebuild(), lines 307-311: clean(); config_.force_rebuild = true;
\* return build(); the state directory lies beside the output directory.
call_rebuild(removed) ==
    /\ clean_effects(FALSE, removed)
    /\ config' = [config EXCEPT !.force_rebuild = TRUE]
    /\ build_entry
    /\ last_check' = Calling("rebuild")
    /\ UNCHANGED <<build_file, decl, imports, abcVars, threads, now,
                   file_epoch, run, ops>>

\* The call has returned its result; the caller may call again.
call_return ==
    /\ stage = "done"
    /\ ops < MaxOps - 1
    /\ ops' = ops + 1
    /\ stage' = "idle"
    /\ run' = [run EXCEPT !.n = @ + 1, !.first = result_,
                          !.first_saved = run.saved, !.saved = FALSE]
    /\ UNCHANGED <<inVars, targets_, dependencies_, dependents_, build_order_,
                   dirty_targets_, result_, cancelled_, execVars, smVars,
                   envVars, hist, last_check>>

NextCalls ==
    \/ call_build
    \/ call_check
    \/ \E removed \in BOOLEAN : call_rebuild(removed)
    \/ load_state
    \/ scan_dependencies
    \/ build_dependency_graph
    \/ detect_cycles
    \/ mark_dirty_targets
    \/ execute_builds
    \/ seq_next
    \/ seq_dry_run
    \/ seq_build
    \/ \E ok \in BOOLEAN : seq_built(ok)
    \/ save_state
    \/ call_return

SpecCalls == InitCalls /\ [][NextCalls]_vars

\* A sequence holds each of its elements once.
NoDuplicates(s) == \A i, j \in DOMAIN s : s[i] = s[j] => i = j

\* C35: whatever calls came before, a call of build(), check() or rebuild()
\* works on the targets of the build file alone: total_targets is their
\* number, targets_ and build_order_ hold each target once, and no target is
\* started twice in the call.
Reentrant ==
    /\ stage # "idle"
         => /\ result_.total_targets = Len(parse_build_file(build_file).targets)
            /\ NoDuplicates(targets_)
    /\ stage \in {"mark", "exec", "seq", "save", "done"}
         => NoDuplicates(build_order_)
    /\ \A t \in Names : hist.started[t] <= 1

\* The call in progress is a build() that follows a call of `kind`.
BuildAfter(kind) == last_check.kind = "build" /\ last_check.name = kind

\* C36: a build() that follows check() runs with dry_run as configured and
\* compiles its dirty targets; a build() that follows rebuild() runs with
\* force_rebuild as configured and, when the rebuild built every target and
\* saved its state, finds nothing to build.
CallsLeaveConfig ==
    /\ BuildAfter("check")
         => /\ config.dry_run = Configured.dry_run
            /\ (stage \in {"save", "done"} /\ result_.errors = <<>>)
                 => \A t \in dirty_targets_ : hist.outcome[t] = "ok"
    /\ BuildAfter("rebuild")
         => /\ config.force_rebuild = Configured.force_rebuild
            /\ (/\ stage \in {"exec", "seq", "save", "done"}
                /\ run.first.success
                /\ run.first_saved
                /\ run.first.built_targets = Len(CallFile))
                 => dirty_targets_ = {}

\* ========================================================== a new toolchain
\* The tree and the state file an earlier build of a and b with the compiler
\* "ariac" left, nothing edited since. The compiler is then replaced: a
\* first process runs `check` or `build` with "ariac2" (both failure
\* policies, any compile outcomes), and a second process runs either again.
ToolConfigs ==
    {[BuildConfig(ff, 1, FALSE, FALSE, UsualPathLen)
         EXCEPT !.compiler = "ariac2"] : ff \in BOOLEAN}

InitTool ==
    /\ build_file = CallFile
    /\ \E edges \in CallEdges : decl = [t \in Names |-> DeclOf(edges, t)]
    /\ imports = [t \in Names |-> <<>>]
    /\ config \in ToolConfigs
    /\ NewProcess
    /\ doc = NoDocument
    /\ environ = EmptyMap
    /\ files = PriorFiles(SeqToSet(CallFile), {})
    /\ manifest = PriorManifest(SeqToSet(CallFile), EpochSkew)
    /\ now = 1
    /\ file_epoch = EpochSkew
    /\ NewHistory

\* The first process has exited; the second one is started with the
\* configuration of the command line, which does not ask for a dry run.
tool_restart ==
    /\ stage = "done"
    /\ run.n = 1
    /\ run' = [run EXCEPT !.n = 2, !.first = result_, !.first_saved = run.saved]
    /\ constructed
    /\ config' = [config EXCEPT !.dry_run = FALSE]
    /\ UNCHANGED <<build_file, decl, imports, abcVars, threads, envVars, hist,
                   ops, last_check>>

NextTool ==
    \/ call_build
    \/ call_check
    \/ load_state
    \/ scan_dependencies
    \/ build_dependency_graph
    \/ detect_cycles
    \/ mark_dirty_targets
    \/ execute_builds
    \/ seq_next
    \/ seq_dry_run
    \/ seq_build
    \/ \E ok \in BOOLEAN : seq_built(ok)
    \/ save_state
    \/ tool_restart

SpecTool == InitTool /\ [][NextTool]_vars

\* The call the first process made.
FirstCall ==
    IF last_check.name = "none" THEN last_check.kind ELSE last_check.name
\* The targets the first process compiled with the new compiler and recorded:
\* all of them when it was a build() that succeeded (the new toolchain made
\* every target dirty), none otherwise. (A failed build() does not save.)
RebuiltByFirst ==
    IF FirstCall = "build" /\ run.first.success THEN SeqToSet(CallFile)
    ELSE {}

\* C37: the manifest the first process leaves names "ariac2" as its
\* toolchain only when its records were built with "ariac2"; and the second
\* process, running "ariac2", reports no target Clean that the first one
\* did not rebuild.
ToolchainConsistent ==
    run.n = 2
      => /\ (stage # "done" /\ manifest.toolchain = ToolchainInfo("ariac2"))
              => DOMAIN manifest.targets \subseteq RebuiltByFirst
         /\ stage \in {"exec", "seq", "save", "done"}
              => SeqToSet(CallFile) \ RebuiltByFirst \subseteq dirty_targets_

\* The names the colour map holds as GRAY.
GrayNames == {n \in DOMAIN interp.colorMap : interp.colorMap[n] = "GRAY"}

\* C38: when a top-level resolve has returned, with a value or with an
\* error, no name is GRAY; and a resolve reports a circular dependency only
\* when the definitions reachable from its input contain a cycle.
NoGrayAtRest ==
    abc_out.kind = "resolve" =>
        /\ GrayNames = {}
        /\ abc_out.result.error.message = "Circular dependency detected"
             => HasDefinitionCycle(abc_out.input, abc_out.localScope)

\* ===================================================== get_cached_hash, racing
\* get_cached_hash step by step (lines 351-377), called by several threads
\* for one source while the file is rewritten from outside: the look-up
\* under the shared cache lock, sha256_file and get_file_timestamp under no
\* lock, the store under the unique cache lock. Each rewrite changes the
\* content and falls into a later second than the one before, so a content
\* and its modification time determine each other.
Hashers == {"h1", "h2"}
HashedPath == SrcPath("a")
IdleHasher == [pc |-> "idle", hash |-> <<>>, timestamp |-> 0]

gh_spawn ==
    /\ threads = EmptyMap
    /\ threads' = [t \in Hashers |-> IdleHasher]
    /\ UNCHANGED <<build_file, decl, imports, config, abcVars, orchVars,
                   execVars, smVars, envVars, histVars>>

\* lines 355-367: a hit returns the cached digest
gh_lookup(t) ==
    /\ t \in DOMAIN threads
    /\ threads[t].pc = "idle"
    /\ threads' =
           [threads EXCEPT ![t] =
               IF /\ HashedPath \in DOMAIN hash_cache_
                  /\ HashedPath \in DOMAIN timestamp_cache_
                  /\ get_file_timestamp(HashedPath) = timestamp_cache_[HashedPath]
               THEN [IdleHasher EXCEPT !.hash = hash_cache_[HashedPath]]
               ELSE [IdleHasher EXCEPT !.pc = "sha256"]]
    /\ UNCHANGED <<build_file, decl, imports, config, abcVars, orchVars,
                   execVars, smVars, envVars, histVars>>

\* line 370: std::string hash = sha256_file(path);
gh_sha256(t) ==
    /\ t \in DOMAIN threads
    /\ threads[t].pc = "sha256"
    /\ threads' = [threads EXCEPT ![t].hash = sha256_file(HashedPath),
                                  ![t].pc = "timestamp"]
    /\ UNCHANGED <<build_file, decl, imports, config, abcVars, orchVars,
                   execVars, smVars, envVars, histVars>>

\* line 371: uint64_t timestamp = get_file_timestamp(path);
gh_timestamp(t) ==
    /\ t \in DOMAIN threads
    /\ threads[t].pc = "timestamp"
    /\ threads' =
           [threads EXCEPT ![t].timestamp = get_file_timestamp(HashedPath),
                           ![t].pc = "store"]
    /\ UNCHANGED <<build_file, decl, imports, config, abcVars, orchVars,
                   execVars, smVars, envVars, histVars>>

\* lines 374-379: both maps are written under the unique lock; return hash
gh_store(t) ==
    /\ t \in DOMAIN threads
    /\ threads[t].pc = "store"
    /\ hash_cache_' = MapPut(hash_cache_, HashedPath, threads[t].hash)
    /\ timestamp_cache_' =
           MapPut(timestamp_cache_, HashedPath, threads[t].timestamp)
    /\ threads' = [threads EXCEPT ![t].pc = "idle"]
    /\ UNCHANGED <<build_file, decl, imports, config, abcVars, orchVars,
                   execVars, records_, sm_dirty_, toolchain_,
                   saved_toolchain_, envVars, histVars>>

\* The file is rewritten with another content, a second or more after its
\* last modification.
gh_modify(content) ==
    /\ threads # EmptyMap
    /\ now < MaxTime
    /\ content # files[HashedPath].content
    /\ now' = now + 1
    /\ files' = [files EXCEPT ![HashedPath] =
                     [exists |-> TRUE, content |-> content, mtime |-> now + 1]]
    /\ UNCHANGED <<inVars, orchVars, execVars, smVars, manifest, file_epoch,
                   histVars>>

InitRace ==
    /\ build_file = <<"a">>
    /\ decl = [t \in Names |-> <<>>]
    /\ imports = [t \in Names |-> <<>>]
    /\ config = BuildConfig(TRUE, 1, FALSE, FALSE, UsualPathLen)
    /\ NewProcess
    /\ doc = NoDocument
    /\ environ = EmptyMap
    /\ files = PriorFiles({}, {})
    /\ manifest = NoManifest
    /\ now = 1
    /\ file_epoch \in {0, EpochSkew}
    /\ NewHistory

NextRace ==
    \/ gh_spawn
    \/ \E t \in Hashers : gh_lookup(t)
    \/ \E t \in Hashers : gh_sha256(t)
    \/ \E t \in Hashers : gh_timestamp(t)
    \/ \E t \in Hashers : gh_store(t)
    \/ \E content \in Contents : gh_modify(content)

SpecRace == InitRace /\ [][NextRace]_vars

\* C39: the cache entry of a path pairs a digest with the modification time
\* of the content it was computed from: while the file's modification time
\* equals the cached one, the cached digest (which a look-up then serves) is
\* the digest of the file's content.
HashEntryConsistent ==
    (/\ HashedPath \in DOMAIN hash_cache_
     /\ HashedPath \in DOMAIN timestamp_cache_
     /\ get_file_timestamp(HashedPath) = timestamp_cache_[HashedPath])
       => hash_cache_[HashedPath] = sha256_file(HashedPath)

\* build() has returned a result for which the dirty set was computed.
ReturnedPlanned ==
    stage = "done" /\ result_.total_targets > 0 /\ ~result_.has_cycle

\* C40: in a result build() returns, skipped_targets is total_targets minus
\* the size of the dirty set and built_targets + failed_targets is at most
\* that size; with success, failed_targets is 0, built_targets +
\* skipped_targets is total_targets, and no stage has reported an error.
ResultAccounting ==
    /\ ReturnedPlanned
         => /\ result_.skipped_targets =
                   result_.total_targets - Cardinality(dirty_targets_)
            /\ result_.built_targets + result_.failed_targets
                   <= Cardinality(dirty_targets_)
    /\ (stage = "done" /\ result_.success)
         => /\ result_.failed_targets = 0
            /\ result_.built_targets + result_.skipped_targets
                   = result_.total_targets
            /\ result_.errors = <<>>
            /\ ~result_.has_cycle

====
